---- MODULE Spec2Model ----
(***************************************************************************)
(* Model of the combat engine of pokemon-simulator-api:                    *)
(*   - the type damage multiplier of a round   (fight/pokemon_fight.rs)    *)
(*   - the single encounter process_fight_with_hp (fight/pokemon_fight.rs) *)
(*   - the trainer fight process_fight          (fight/trainer_fight.rs)   *)
(*   - the selection strategies choose_pokemon  (fight/mod.rs)             *)
(*   - the entity repository and the relationship linker over the graph    *)
(*     store (database/*.rs) with the entities' implementations of them    *)
(*     (pokemon/mod.rs, pokemon/ptype.rs, trainer/mod.rs)                  *)
(*                                                                         *)
(* Numbers.  The code computes in f32.  The model computes the same        *)
(* expressions exactly, in fixed point: multipliers in thousandths         *)
(* (1.0 = 1000), the random multiplier in tenths, and a fractional HP or   *)
(* damage as an integer numerator over HpDen.  f32 rounding error is not   *)
(* modelled; f32::round (half away from zero) and the saturating           *)
(* `as u32` cast are.                                                      *)
(***************************************************************************)
EXTENDS Integers, Sequences, FiniteSets, TLC

VARIABLES
    strong_against,     \* PokemonType.strong_against, per type name
    weak_against,       \* PokemonType.weak_against, per type name
    contender,          \* process_fight_with_hp: first argument
    challenger,         \* process_fight_with_hp: second argument
    contender_hp,       \* process_fight_with_hp: carried HP of the contender
    challenger_hp,      \* process_fight_with_hp: carried HP of the challenger
    last_to_attack,     \* process_fight_with_hp: pokemon that attacked last
    log,                \* process_fight_with_hp: FightLog.log
    damage_mult,        \* process_fight_with_hp: multiplier of the last round
    checks,             \* the four pairwise adjustments of the last round
    round,              \* locals of the last loop iteration
    rounds,             \* number of loop iterations run so far
    resolved,           \* process_fight_with_hp: type references resolved so far
    pc,                 \* position in process_fight_with_hp
    challenger_trainer, \* trainer_fight::process_fight: first argument
    contender_trainer,  \* trainer_fight::process_fight: second argument
    challenger_strat,   \* trainer_fight::process_fight: third argument
    contender_strat,    \* trainer_fight::process_fight: fourth argument
    challenger_team,    \* the challenger's resolved roster
    contender_team,     \* the contender's resolved roster
    challenger_pokemon, \* the challenger's active pokemon, or NoPokemon
    contender_pokemon,  \* the contender's active pokemon, or NoPokemon
    tf_challenger_hp,   \* trainer fight: HP of the challenger's active pokemon
    tf_contender_hp,    \* trainer fight: HP of the contender's active pokemon
    tf_log,             \* trainer fight: FightLog.log
    tf_pc,              \* position in trainer_fight::process_fight
    tf_result,          \* what trainer_fight::process_fight returned
    chooser,            \* the side that took the last replacement arm
    encounters,         \* calls of process_fight_with_hp made so far
    db_nodes,           \* the store: its nodes, each with a label and properties
    db_edges,           \* the store: its relationships between nodes
    db_next,            \* the store: the id the next created node gets
    entity,             \* the entity value the caller holds (`self`)
    last_call,          \* the last repository or linker call and its arguments
    repeated,           \* the last call repeated the call before it
    call_result,        \* what the last call returned: Ok or Err
    linked,             \* the bool is_linked_by returned
    got_all,            \* the entities get_all, or the entity resolve, returned
    reads,              \* store queries the last call executed
    sync,               \* entity was loaded and only linked/unlinked Ok since
    response,           \* the message of the last endpoint's answer
    lookup_error,       \* the error the endpoint's lookup returned, if any
    requests            \* add_pokemon: per client, the pokemon that passed the check

typeVars == <<strong_against, weak_against>>

fightVars == <<contender, challenger, contender_hp, challenger_hp,
               last_to_attack, log, damage_mult, checks, round, rounds,
               resolved, pc>>

argVars == <<challenger_trainer, contender_trainer, challenger_strat,
             contender_strat>>

trainerVars == <<challenger_team, contender_team, challenger_pokemon,
                 contender_pokemon, tf_challenger_hp, tf_contender_hp,
                 tf_log, tf_pc, tf_result, chooser, encounters>>

storeVars == <<db_nodes, db_edges, db_next, entity, last_call, repeated,
               call_result, linked, got_all, reads, sync, response,
               lookup_error, requests>>

vars == <<typeVars, fightVars, argVars, trainerVars, storeVars>>

----------------------------------------------------------------------------
(* Bounds of the model *)

MaxLinks == 4      \* StrongAgainst/WeakAgainst edges in a drawn type graph
MaxRounds == 4     \* loop iterations of one encounter that are explored
MaxTeam == 2       \* pokemon in a trainer's team
MaxNodes == 2      \* nodes the store holds
MaxRefs == 2       \* references an entity holds per relationship type
MaxLen == 3        \* characters of a string handed to sanitize

----------------------------------------------------------------------------
(* Types and their relations *)

None == "None"

Types == {"Water", "Fire", "Electric"}

OptTypes == Types \cup {None}

TypePairs == Types \X Types

\* a reference to the type resolves: the store answers, holds the type and
\* can reconstruct it
Resolves(t) == t \in DOMAIN strong_against

\* PokemonType::is_strong_against: other.name occurs in self.strong_against
is_strong_against(self, other) == other \in strong_against[self]

\* PokemonType::is_weak_against: other.name occurs in self.weak_against
is_weak_against(self, other) == other \in weak_against[self]

----------------------------------------------------------------------------
(* The type damage multiplier, in thousandths *)

MultOne == 1000
StrongBonus == 375
WeakPenalty == 225
SuperAbove == 1800
NotVeryBelow == 600

\* primary vs primary, counted a second time for the absent secondary types
CheckPrimaryPrimary_twice(atk_ptype, def_ptype) ==
    IF is_strong_against(atk_ptype, def_ptype) THEN 2 * StrongBonus
    ELSE IF is_weak_against(atk_ptype, def_ptype) THEN 0 - 2 * WeakPenalty
    ELSE 0

\* primary vs primary
CheckPrimaryPrimary(atk_ptype, def_ptype) ==
    IF is_strong_against(atk_ptype, def_ptype) THEN StrongBonus
    ELSE IF is_weak_against(atk_ptype, def_ptype) THEN 0 - WeakPenalty
    ELSE 0

\* attacker's primary vs defender's secondary
CheckPrimarySecondary(atk_ptype, def_stype) ==
    IF def_stype = None THEN 0
    ELSE IF is_strong_against(atk_ptype, def_stype) THEN StrongBonus
    ELSE IF is_weak_against(atk_ptype, def_stype) THEN 0 - WeakPenalty
    ELSE 0

\* defender's primary vs attacker's secondary, rewarding the defender's strength
CheckSecondaryPrimary_reversed(def_ptype, atk_stype) ==
    IF atk_stype = None THEN 0
    ELSE IF is_strong_against(def_ptype, atk_stype) THEN StrongBonus
    ELSE IF is_weak_against(def_ptype, atk_stype) THEN 0 - WeakPenalty
    ELSE 0

\* defender's primary vs attacker's secondary
CheckSecondaryPrimary(def_ptype, atk_stype) ==
    IF atk_stype = None THEN 0
    ELSE IF is_strong_against(def_ptype, atk_stype) THEN 0 - WeakPenalty
    ELSE IF is_weak_against(def_ptype, atk_stype) THEN StrongBonus
    ELSE 0

\* defender's secondary vs attacker's secondary
CheckSecondarySecondary(def_stype, atk_stype) ==
    IF atk_stype = None \/ def_stype = None THEN 0
    ELSE IF is_strong_against(def_stype, atk_stype) THEN 0 - WeakPenalty
    ELSE IF is_weak_against(def_stype, atk_stype) THEN StrongBonus
    ELSE 0

\* the four adjustments of a round, in the order the code applies them
TypeChecks(attacker, defender) ==
    << CheckPrimaryPrimary(attacker.ptype, defender.ptype),
       CheckPrimarySecondary(attacker.ptype, defender.stype),
       CheckSecondaryPrimary(defender.ptype, attacker.stype),
       CheckSecondarySecondary(defender.stype, attacker.stype) >>

DamageMult(attacker, defender) ==
    LET c == TypeChecks(attacker, defender)
    IN  MultOne + c[1] + c[2] + c[3] + c[4]

\* The same multiplier as the f32 the code holds, in units of 2^-27: 1.0, and
\* the nearest f32 to the literals 0.375 (exact) and 0.225 (15099494 * 2^-26)
F32One == 134217728
F32Strong == 50331648
F32Weak == 30198988

\* spacing of the f32 numbers around x: a 24-bit significand
F32Ulp(x) ==
    IF x < 2^24 THEN 1
    ELSE IF x < 2^25 THEN 2
    ELSE IF x < 2^26 THEN 4
    ELSE IF x < 2^27 THEN 8
    ELSE IF x < 2^28 THEN 16
    ELSE 32

\* round to nearest f32, ties to even
F32Round(x) ==
    LET u == F32Ulp(x)
        q == x \div u
        r == x % u
    IN  IF 2 * r < u THEN q * u
        ELSE IF 2 * r > u THEN (q + 1) * u
        ELSE IF q % 2 = 0 THEN q * u
        ELSE (q + 1) * u

\* damage_mult += 0.375, damage_mult -= 0.225, or no assignment
F32Apply(mult, delta) ==
    IF delta = StrongBonus THEN F32Round(mult + F32Strong)
    ELSE IF delta = 0 - WeakPenalty THEN F32Round(mult - F32Weak)
    ELSE mult

\* damage_mult as the f32 left by the four checks, applied in the code's order
F32DamageMult(c) ==
    F32Apply(F32Apply(F32Apply(F32Apply(F32One, c[1]), c[2]), c[3]), c[4])

Effectiveness(mult) ==
    IF mult > SuperAbove THEN "SuperEffective"
    ELSE IF mult < NotVeryBelow THEN "NotVeryEffective"
    ELSE "Normal"

----------------------------------------------------------------------------
(* Pokemon *)

\* A resolved Pokemon: name, stats, and the names of its resolved types
Pokemon(name, hp, attack, defense, agility, ptype, stype) ==
    [name |-> name, hp |-> hp, attack |-> attack, defense |-> defense,
     agility |-> agility, ptype |-> ptype, stype |-> stype]

\* primary_type() and secondary_type(): the type references of a pokemon
TypeRefs(p) == IF p.stype = None THEN << p.ptype >> ELSE << p.ptype, p.stype >>

\* Equality of two Pokemon as the fight compares them: by identity (name)
PokemonEq(a, b) == a.name = b.name

NoPokemon == Pokemon(None, 0, 0, 0, 0, None, None)

NoRound == [attacker |-> None, defender |-> None, atk_hp |-> 0,
            def_hp_before |-> 0, damage |-> 0, def_hp |-> 0,
            atk_side |-> None]

NoTrainer == [name |-> None, team |-> << >>]

\* the trainer fight is not running
NoTrainerFight ==
    /\ challenger_trainer = NoTrainer
    /\ contender_trainer = NoTrainer
    /\ challenger_strat = None
    /\ contender_strat = None
    /\ challenger_team = << >>
    /\ contender_team = << >>
    /\ challenger_pokemon = NoPokemon
    /\ contender_pokemon = NoPokemon
    /\ tf_challenger_hp = 0
    /\ tf_contender_hp = 0
    /\ tf_log = << >>
    /\ tf_pc = "idle"
    /\ tf_result = None
    /\ chooser = None
    /\ encounters = 0

\* the relationship types of all entity kinds
Labels == {"PrimaryType", "SecondaryType", "StrongAgainst", "WeakAgainst",
           "Owns"}

\* no references held, whatever the relationship type
NoRels == [l \in Labels |-> << >>]

\* no entity is held
NoEntity == [kind |-> None, name |-> << >>, scalars |-> << >>, rels |-> NoRels]

\* no call has been made
NoCall == [op |-> None, kind |-> None, ident |-> << >>, scalars |-> << >>,
           rel |-> None, other |-> << >>]

\* the clients whose add_pokemon requests the server handles at a time
Clients == {"c1", "c2"}

\* no add_pokemon request is between its check and its put
NoRequests == [c \in Clients |-> NoEntity]

\* the repository is not in use: an empty store and no entity in memory
NoStore ==
    /\ db_nodes = {}
    /\ db_edges = {}
    /\ db_next = 1
    /\ entity = NoEntity
    /\ last_call = NoCall
    /\ repeated = FALSE
    /\ call_result = None
    /\ linked = FALSE
    /\ got_all = << >>
    /\ reads = 0
    /\ sync = FALSE
    /\ response = None
    /\ lookup_error = None
    /\ requests = NoRequests

\* The type graphs a store can hold with at most MaxLinks edges
TypeGraphs ==
    { g \in [strong : SUBSET TypePairs, weak : SUBSET TypePairs] :
          Cardinality(g.strong) + Cardinality(g.weak) <= MaxLinks }

Linked(edges) == [t \in Types |-> { u \in Types : <<t, u>> \in edges }]

----------------------------------------------------------------------------
(* The multiplier alone: any type graph, any assignment of types *)

\* stats of the two pokemon whose types vary
TypedAttacker(ptype, stype) == Pokemon("Pikachu", 35, 55, 40, 90, ptype, stype)

TypedDefender(ptype, stype) == Pokemon("Squirtle", 39, 52, 43, 84, ptype, stype)

InitMult ==
    /\ \E g \in TypeGraphs :
          /\ strong_against = Linked(g.strong)
          /\ weak_against = Linked(g.weak)
    /\ \E ap \in Types, as \in OptTypes : contender = TypedAttacker(ap, as)
    /\ \E dp \in Types, ds \in OptTypes : challenger = TypedDefender(dp, ds)
    /\ contender_hp = contender.hp
    /\ challenger_hp = challenger.hp
    /\ last_to_attack = challenger
    /\ log = << >>
    /\ damage_mult = MultOne
    /\ checks = << 0, 0, 0, 0 >>
    /\ round = NoRound
    /\ rounds = 0
    /\ resolved = TypeRefs(contender) \o TypeRefs(challenger)
    /\ pc = "types"
    /\ NoTrainerFight
    /\ NoStore

\* lines 85-121 of a round in which the contender attacks
ComputeMult ==
    /\ pc = "types"
    /\ checks' = TypeChecks(contender, challenger)
    /\ damage_mult' = DamageMult(contender, challenger)
    /\ pc' = "types_done"
    /\ UNCHANGED <<storeVars, typeVars, contender, challenger, contender_hp,
                   challenger_hp, last_to_attack, log, round, rounds,
                   resolved, argVars, trainerVars>>

NextMult == ComputeMult

SpecMult == InitMult /\ [][NextMult]_vars

----------------------------------------------------------------------------
(* One encounter: process_fight_with_hp *)

RandDen == 10              \* the random multiplier is counted in tenths
RandTenths == {8, 11}      \* drawn values of 0.8 + random() * 0.4, in [0.8, 1.2)
DefDen == 200              \* 1.0 - (defense / 100.0) * 0.5 = (200 - defense) / 200

\* a fractional HP or damage x is held as the integer x * HpDen
HpDen == MultOne * RandDen * DefDen

\* f32::round followed by `as u32`: half away from zero, negatives saturate to 0
RoundU32(x) == IF x <= 0 THEN 0 ELSE (2 * x + HpDen) \div (2 * HpDen)

\* `as u32` of an f32: truncation, negatives saturate to 0
AsU32(x) == IF x <= 0 THEN 0 ELSE x \div HpDen

\* defense_mult of line 135, over DefDen
DefenseMult(defender) == DefDen - defender.defense

\* damage of line 137, over HpDen
Damage(attacker, defender, mult, rand_mult) ==
    ((attacker.attack * mult) * rand_mult) * DefenseMult(defender)

Hit(attacker, defender, damage, hp_left, effectiveness) ==
    [event_name |-> "Hit", attacker |-> attacker, defender |-> defender,
     damage |-> damage, hp_left |-> hp_left, effectiveness |-> effectiveness]

Fainted(pokemon) == [event_name |-> "Fainted", pokemon |-> pokemon]

PokemonWinner(pokemon, hp_left) ==
    [event_name |-> "PokemonWinner", pokemon |-> pokemon, hp_left |-> hp_left]

\* lines 39-49: the type references are resolved in order, and the first
\* resolve that fails returns its error (`?`): the references awaited
Awaited(refs) ==
    LET failing == { i \in 1..Len(refs) : ~Resolves(refs[i]) }
    IN  IF failing = {} THEN refs
        ELSE SubSeq(refs, 1, CHOOSE i \in failing : \A j \in failing : i <= j)

\* lines 33-57: the types of both pokemon are resolved, and the loop is
\* entered with an empty log, or the error of a resolve is returned
EnterFight(p_contender, p_challenger, p_contender_hp, p_challenger_hp) ==
    LET refs == TypeRefs(p_contender) \o TypeRefs(p_challenger)
    IN  /\ contender' = p_contender
        /\ challenger' = p_challenger
        /\ contender_hp' = p_contender_hp
        /\ challenger_hp' = p_challenger_hp
        /\ last_to_attack' = IF p_contender.agility > p_challenger.agility
                             THEN p_contender ELSE p_challenger
        /\ log' = << >>
        /\ damage_mult' = MultOne
        /\ checks' = << 0, 0, 0, 0 >>
        /\ round' = NoRound
        /\ rounds' = 0
        /\ resolved' = Awaited(refs)
        /\ pc' = IF \A i \in 1..Len(refs) : Resolves(refs[i])
                 THEN "loop" ELSE "failed"

\* an iteration that does not record who attacked
RoundBody_forgetful(rand_mult) ==
    LET contender_attacks == PokemonEq(last_to_attack, challenger)
        attacker == IF contender_attacks THEN contender ELSE challenger
        defender == IF contender_attacks THEN challenger ELSE contender
        atk_hp == IF contender_attacks THEN contender_hp ELSE challenger_hp
        def_hp_before == IF contender_attacks THEN challenger_hp ELSE contender_hp
        mult == DamageMult(attacker, defender)
        damage == Damage(attacker, defender, mult, rand_mult)
        def_hp == def_hp_before * HpDen - damage
        hit == Hit(attacker.name, defender.name, AsU32(damage),
                   RoundU32(def_hp), Effectiveness(mult))
        ended == IF def_hp <= 0
                 THEN << Fainted(defender.name),
                         PokemonWinner(attacker.name, atk_hp) >>
                 ELSE << >>
    IN  /\ checks' = TypeChecks(attacker, defender)
        /\ damage_mult' = mult
        /\ log' = (log \o << hit >>) \o ended
        /\ round' = [attacker |-> attacker.name, defender |-> defender.name,
                     atk_hp |-> atk_hp, def_hp_before |-> def_hp_before,
                     damage |-> damage, def_hp |-> def_hp,
                     atk_side |-> IF contender_attacks THEN "contender"
                                  ELSE "challenger"]
        /\ last_to_attack' = last_to_attack
        /\ IF PokemonEq(attacker, challenger)
           THEN /\ contender_hp' = RoundU32(def_hp)
                /\ challenger_hp' = atk_hp
           ELSE /\ contender_hp' = atk_hp
                /\ challenger_hp' = RoundU32(def_hp)

\* lines 59-175: one iteration of the loop, with the drawn random multiplier
RoundBody(rand_mult) ==
    LET contender_attacks == PokemonEq(last_to_attack, challenger)
        attacker == IF contender_attacks THEN contender ELSE challenger
        defender == IF contender_attacks THEN challenger ELSE contender
        atk_hp == IF contender_attacks THEN contender_hp ELSE challenger_hp
        def_hp_before == IF contender_attacks THEN challenger_hp ELSE contender_hp
        mult == DamageMult(attacker, defender)
        damage == Damage(attacker, defender, mult, rand_mult)
        def_hp == def_hp_before * HpDen - damage
        hit == Hit(attacker.name, defender.name, AsU32(damage),
                   RoundU32(def_hp), Effectiveness(mult))
        ended == IF def_hp <= 0
                 THEN << Fainted(defender.name),
                         PokemonWinner(attacker.name, atk_hp) >>
                 ELSE << >>
    IN  /\ checks' = TypeChecks(attacker, defender)
        /\ damage_mult' = mult
        /\ log' = (log \o << hit >>) \o ended
        /\ round' = [attacker |-> attacker.name, defender |-> defender.name,
                     atk_hp |-> atk_hp, def_hp_before |-> def_hp_before,
                     damage |-> damage, def_hp |-> def_hp,
                     atk_side |-> IF contender_attacks THEN "contender"
                                  ELSE "challenger"]
        /\ last_to_attack' = attacker
        /\ IF PokemonEq(attacker, challenger)
           THEN /\ contender_hp' = RoundU32(def_hp)
                /\ challenger_hp' = atk_hp
           ELSE /\ contender_hp' = atk_hp
                /\ challenger_hp' = RoundU32(def_hp)

\* line 59: the loop condition
Fighting == contender_hp > 0 /\ challenger_hp > 0

\* an iteration that resolves the types of both pokemon again
Round_resolving ==
    /\ pc = "loop"
    /\ Fighting
    /\ rounds < MaxRounds
    /\ \E rand_mult \in RandTenths : RoundBody(rand_mult)
    /\ rounds' = rounds + 1
    /\ resolved' = resolved \o Awaited(TypeRefs(contender) \o TypeRefs(challenger))
    /\ UNCHANGED <<storeVars, typeVars, contender, challenger, pc, argVars,
                   trainerVars>>

\* one iteration of the loop of process_fight_with_hp
Round ==
    /\ pc = "loop"
    /\ Fighting
    /\ rounds < MaxRounds
    /\ \E rand_mult \in RandTenths : RoundBody(rand_mult)
    /\ rounds' = rounds + 1
    /\ UNCHANGED <<storeVars, typeVars, contender, challenger, resolved, pc,
                   argVars, trainerVars>>

\* line 177: the loop condition fails and the log is returned
Return ==
    /\ pc = "loop"
    /\ ~Fighting
    /\ pc' = "returned"
    /\ UNCHANGED <<storeVars, typeVars, contender, challenger, contender_hp,
                   challenger_hp, last_to_attack, log, damage_mult, checks,
                   round, rounds, resolved, argVars, trainerVars>>

----------------------------------------------------------------------------
(* process_fight: one encounter between two stored pokemon at full HP *)

\* the rock-paper-scissors triangle, without and with the reverse weaknesses
TriangleStrong ==
    { <<"Water", "Fire">>, <<"Fire", "Electric">>, <<"Electric", "Water">> }

TriangleWeak ==
    { <<"Fire", "Water">>, <<"Electric", "Fire">>, <<"Water", "Electric">> }

TypeWorlds ==
    { [strong |-> TriangleStrong, weak |-> {}],
      [strong |-> TriangleStrong, weak |-> TriangleWeak] }

HpVals == {0, 10, 35}
AtkVals == {0, 12, 55}
DefVals == {0, 40, 250}
AgiVals == {84, 90}

\* the pokemon a store can hold under a name, with the given types
Stored(name, ptype, stype) ==
    { Pokemon(name, hp, atk, def, agi, ptype, stype) :
          hp \in HpVals, atk \in AtkVals, def \in DefVals, agi \in AgiVals }

InitEncounter ==
    /\ \E g \in TypeWorlds :
          /\ strong_against = Linked(g.strong)
          /\ weak_against = Linked(g.weak)
    /\ contender \in Stored("Pikachu", "Electric", None)
    /\ challenger \in Stored("Squirtle", "Water", None) \cup {contender}
    /\ contender_hp = contender.hp
    /\ challenger_hp = challenger.hp
    /\ last_to_attack = IF contender.agility > challenger.agility
                        THEN contender ELSE challenger
    /\ log = << >>
    /\ damage_mult = MultOne
    /\ checks = << 0, 0, 0, 0 >>
    /\ round = NoRound
    /\ rounds = 0
    /\ resolved = TypeRefs(contender) \o TypeRefs(challenger)
    /\ pc = "loop"
    /\ NoTrainerFight
    /\ NoStore

NextEncounter == Round \/ Return

SpecEncounter == InitEncounter /\ [][NextEncounter]_vars

\* the encounter as it is run: the loop goes on while its condition holds,
\* and the function returns when it fails
SpecEncounterLive ==
    SpecEncounter /\ WF_vars(Round) /\ WF_vars(Return)

----------------------------------------------------------------------------
(* FightStrategy::choose_pokemon *)

Strategies == {"StrongestAtk", "StrongestDef", "StrongestSum", "StrongestType",
               "Random"}

\* the keys of max_by_key, per position of the team
KeyAtk(team) == [i \in 1..Len(team) |-> team[i].attack]
KeyDef(team) == [i \in 1..Len(team) |-> team[i].defense]
KeySum(team) == [i \in 1..Len(team) |-> team[i].attack + team[i].defense]

\* Iterator::max_by_key: of the elements with the largest key, the last one
MaxByKey(team, key) ==
    LET best == CHOOSE i \in 1..Len(team) :
                    /\ \A j \in 1..Len(team) : key[j] <= key[i]
                    /\ \A j \in (i + 1)..Len(team) : key[j] < key[i]
    IN  team[best]

\* `resolve().await.ok()` of an optional type reference, and the match that
\* turns a failed resolve into None: the type, or None
Resolved(t) == IF t # None /\ Resolves(t) THEN t ELSE None

\* the pokemon, whose primary type resolved, has a type that is strong
\* against a type of the enemy (the early returns of the loop body)
HasAdvantage(pokemon, enemy) ==
    LET enemy_primary_type == Resolved(enemy.ptype)
        enemy_secondary_type == Resolved(enemy.stype)
        own_secondary_type == Resolved(pokemon.stype)
    IN  \/ /\ enemy_primary_type # None
           /\ is_strong_against(pokemon.ptype, enemy_primary_type)
           /\ enemy_secondary_type = None
        \/ /\ enemy_secondary_type # None
           /\ is_strong_against(pokemon.ptype, enemy_secondary_type)
        \/ /\ own_secondary_type # None
           /\ \/ /\ enemy_primary_type # None
                 /\ is_strong_against(own_secondary_type, enemy_primary_type)
              \/ /\ enemy_secondary_type # None
                 /\ is_strong_against(own_secondary_type, enemy_secondary_type)

\* the pokemon, whose primary type resolved, has a type that is weak against
\* a type of the enemy (the `continue`s at the end of the loop body)
HasWeakness(pokemon, enemy) ==
    LET enemy_primary_type == Resolved(enemy.ptype)
        enemy_secondary_type == Resolved(enemy.stype)
        own_secondary_type == Resolved(pokemon.stype)
    IN  \/ /\ enemy_primary_type # None
           /\ is_weak_against(pokemon.ptype, enemy_primary_type)
        \/ /\ enemy_secondary_type # None
           /\ is_weak_against(pokemon.ptype, enemy_secondary_type)
        \/ /\ own_secondary_type # None
           /\ \/ /\ enemy_primary_type # None
                 /\ is_weak_against(own_secondary_type, enemy_primary_type)
              \/ /\ enemy_secondary_type # None
                 /\ is_weak_against(own_secondary_type, enemy_secondary_type)

\* the loop body returns this pokemon; a pokemon whose primary type does not
\* resolve is passed over (`Err(_) => continue`)
Taken(pokemon, enemy) ==
    /\ Resolves(pokemon.ptype)
    /\ (HasAdvantage(pokemon, enemy) \/ ~HasWeakness(pokemon, enemy))

\* FightStrategy::StrongestType
StrongestType(team, enemy) ==
    IF enemy = NoPokemon THEN MaxByKey(team, KeySum(team))
    ELSE IF \E i \in 1..Len(team) : Taken(team[i], enemy)
         THEN team[CHOOSE i \in 1..Len(team) :
                       /\ Taken(team[i], enemy)
                       /\ \A j \in 1..(i - 1) : ~Taken(team[j], enemy)]
         ELSE MaxByKey(team, KeySum(team))

\* a choose_pokemon whose StrongestType gives up when it passed over the
\* whole team
choose_pokemon_picky(strat, team, enemy) ==
    IF team = << >> THEN {}
    ELSE IF strat = "StrongestAtk" THEN { MaxByKey(team, KeyAtk(team)) }
    ELSE IF strat = "StrongestDef" THEN { MaxByKey(team, KeyDef(team)) }
    ELSE IF strat = "StrongestSum" THEN { MaxByKey(team, KeySum(team)) }
    ELSE IF strat = "StrongestType"
    THEN IF enemy # NoPokemon /\ \A i \in 1..Len(team) : ~Taken(team[i], enemy)
         THEN {}
         ELSE { StrongestType(team, enemy) }
    ELSE { team[i] : i \in 1..Len(team) }

\* the pokemon choose_pokemon can return: none for None; Random over an empty
\* team divides by zero and is handled by the caller's model
choose_pokemon(strat, team, enemy) ==
    IF team = << >> THEN {}
    ELSE IF strat = "StrongestAtk" THEN { MaxByKey(team, KeyAtk(team)) }
    ELSE IF strat = "StrongestDef" THEN { MaxByKey(team, KeyDef(team)) }
    ELSE IF strat = "StrongestSum" THEN { MaxByKey(team, KeySum(team)) }
    ELSE IF strat = "StrongestType" THEN { StrongestType(team, enemy) }
    ELSE { team[i] : i \in 1..Len(team) }

----------------------------------------------------------------------------
(* trainer_fight::process_fight *)

ChoosePokemon(trainer, pokemon) ==
    [event_name |-> "ChoosePokemon", trainer |-> trainer, pokemon |-> pokemon]

Winner(trainer, pokemon_left) ==
    [event_name |-> "Winner", trainer |-> trainer, pokemon_left |-> pokemon_left]

\* the names of a roster, in order
TeamNames(team) == [i \in 1..Len(team) |-> team[i].name]

\* process_victory
process_victory(winner_name, winner_team) == Winner(winner_name, TeamNames(winner_team))

\* a retain whose predicate keeps the named pokemon instead of dropping it
Retain_inverted(team, pokemon) ==
    LET Keep(p) == p.name = pokemon IN SelectSeq(team, Keep)

\* Vec::retain(|p| p.name != pokemon)
Retain(team, pokemon) ==
    LET Keep(p) == p.name # pokemon IN SelectSeq(team, Keep)

\* process_fight returns: Ok(log), Err(message), or the thread panics
Finish(result) ==
    /\ tf_pc' = "done"
    /\ tf_result' = result

\* the opening in which the challenger chooses without seeing the contender's
\* pokemon
StartTrainerFight_blind ==
    /\ tf_pc = "start"
    /\ challenger_team' = challenger_trainer.team
    /\ contender_team' = contender_trainer.team
    /\ IF \/ contender_strat = "Random" /\ contender_trainer.team = << >>
          \/ challenger_strat = "Random" /\ challenger_trainer.team = << >>
       THEN /\ Finish("panic: remainder by zero")
            /\ UNCHANGED <<contender_pokemon, challenger_pokemon, tf_log,
                           tf_contender_hp, tf_challenger_hp>>
       ELSE IF \/ contender_trainer.team = << >>
               \/ challenger_trainer.team = << >>
       THEN /\ Finish("strategy produced no valid pokemon")
            /\ UNCHANGED <<contender_pokemon, challenger_pokemon, tf_log,
                           tf_contender_hp, tf_challenger_hp>>
       ELSE \E cont \in choose_pokemon(contender_strat, contender_trainer.team,
                                       NoPokemon) :
            \E chal \in choose_pokemon(challenger_strat, challenger_trainer.team,
                                       NoPokemon) :
                /\ contender_pokemon' = cont
                /\ challenger_pokemon' = chal
                /\ tf_log' = << ChoosePokemon(contender_trainer.name, cont.name),
                                ChoosePokemon(challenger_trainer.name, chal.name) >>
                /\ tf_contender_hp' = cont.hp
                /\ tf_challenger_hp' = chal.hp
                /\ tf_pc' = "loop"
                /\ UNCHANGED tf_result
    /\ UNCHANGED <<storeVars, typeVars, fightVars, argVars, chooser, encounters>>

\* lines 20-65: the teams are resolved and both sides choose their first
\* pokemon, the contender without and the challenger with an enemy to see
StartTrainerFight ==
    /\ tf_pc = "start"
    /\ challenger_team' = challenger_trainer.team
    /\ contender_team' = contender_trainer.team
    /\ IF contender_strat = "Random" /\ contender_trainer.team = << >>
       THEN /\ Finish("panic: remainder by zero")
            /\ UNCHANGED <<contender_pokemon, challenger_pokemon, tf_log,
                           tf_contender_hp, tf_challenger_hp>>
       ELSE IF choose_pokemon(contender_strat, contender_trainer.team, NoPokemon) = {}
       THEN /\ Finish("Contender's strategy produced no valid pokemon")
            /\ UNCHANGED <<contender_pokemon, challenger_pokemon, tf_log,
                           tf_contender_hp, tf_challenger_hp>>
       ELSE \E cont \in choose_pokemon(contender_strat, contender_trainer.team,
                                       NoPokemon) :
            /\ contender_pokemon' = cont
            /\ IF challenger_strat = "Random" /\ challenger_trainer.team = << >>
               THEN /\ Finish("panic: remainder by zero")
                    /\ tf_log' = << ChoosePokemon(contender_trainer.name, cont.name) >>
                    /\ UNCHANGED <<challenger_pokemon, tf_contender_hp,
                                   tf_challenger_hp>>
               ELSE IF choose_pokemon(challenger_strat, challenger_trainer.team,
                                      cont) = {}
               THEN /\ Finish("Challenger's strategy produced no valid pokemon")
                    /\ tf_log' = << ChoosePokemon(contender_trainer.name, cont.name) >>
                    /\ UNCHANGED <<challenger_pokemon, tf_contender_hp,
                                   tf_challenger_hp>>
               ELSE \E chal \in choose_pokemon(challenger_strat,
                                               challenger_trainer.team, cont) :
                    /\ challenger_pokemon' = chal
                    /\ tf_log' = << ChoosePokemon(contender_trainer.name, cont.name),
                                    ChoosePokemon(challenger_trainer.name, chal.name) >>
                    /\ tf_contender_hp' = cont.hp
                    /\ tf_challenger_hp' = chal.hp
                    /\ tf_pc' = "loop"
                    /\ UNCHANGED tf_result
    /\ UNCHANGED <<storeVars, typeVars, fightVars, argVars, chooser, encounters>>

\* line 67: the loop condition
TeamsLeft == challenger_team # << >> /\ contender_team # << >>

\* lines 73-89: the arm (Some, None); the contender chooses a replacement
ContenderArm ==
    /\ LET victory == IF challenger_team = << >>
                      THEN << process_victory(contender_trainer.name, contender_team) >>
                      ELSE << >>
       IN  IF contender_strat = "Random" /\ contender_team = << >>
           THEN /\ Finish("panic: remainder by zero")
                /\ tf_log' = tf_log \o victory
                /\ UNCHANGED contender_pokemon
           ELSE IF choose_pokemon(contender_strat, contender_team,
                                  challenger_pokemon) = {}
           THEN /\ Finish("Contender's strategy produced no valid pokemon")
                /\ tf_log' = tf_log \o victory
                /\ UNCHANGED contender_pokemon
           ELSE \E p \in choose_pokemon(contender_strat, contender_team,
                                        challenger_pokemon) :
                /\ contender_pokemon' = p
                /\ tf_log' = (tf_log \o victory)
                             \o << ChoosePokemon(contender_trainer.name, p.name) >>
                /\ UNCHANGED <<tf_pc, tf_result>>
    /\ chooser' = "contender"
    /\ UNCHANGED <<storeVars, typeVars, fightVars, argVars, challenger_team, contender_team,
                   challenger_pokemon, tf_challenger_hp, tf_contender_hp,
                   encounters>>

\* lines 90-106: the arm (None, Some); the challenger chooses a replacement
ChallengerArm ==
    /\ LET victory == IF contender_team = << >>
                      THEN << process_victory(challenger_trainer.name, challenger_team) >>
                      ELSE << >>
       IN  IF challenger_strat = "Random" /\ challenger_team = << >>
           THEN /\ Finish("panic: remainder by zero")
                /\ tf_log' = tf_log \o victory
                /\ UNCHANGED challenger_pokemon
           ELSE IF choose_pokemon(challenger_strat, challenger_team,
                                  contender_pokemon) = {}
           THEN /\ Finish("Challenger's strategy produced no valid pokemon")
                /\ tf_log' = tf_log \o victory
                /\ UNCHANGED challenger_pokemon
           ELSE \E p \in choose_pokemon(challenger_strat, challenger_team,
                                        contender_pokemon) :
                /\ challenger_pokemon' = p
                /\ tf_log' = (tf_log \o victory)
                             \o << ChoosePokemon(challenger_trainer.name, p.name) >>
                /\ UNCHANGED <<tf_pc, tf_result>>
    /\ chooser' = "challenger"
    /\ UNCHANGED <<storeVars, typeVars, fightVars, argVars, challenger_team, contender_team,
                   contender_pokemon, tf_challenger_hp, tf_contender_hp,
                   encounters>>

\* lines 107-110: the arm (None, None)
BothFaintedArm ==
    /\ Finish("Both pokemon are fainted, which should not be possible")
    /\ UNCHANGED <<storeVars, typeVars, fightVars, argVars, challenger_team, contender_team,
                   challenger_pokemon, contender_pokemon, tf_challenger_hp,
                   tf_contender_hp, tf_log, chooser, encounters>>

\* lines 67-110: an iteration of the loop in which an active slot is empty
Replace ==
    /\ tf_pc = "loop"
    /\ TeamsLeft
    /\ (challenger_pokemon = NoPokemon \/ contender_pokemon = NoPokemon)
    /\ IF challenger_pokemon = NoPokemon /\ contender_pokemon = NoPokemon
       THEN BothFaintedArm
       ELSE IF contender_pokemon = NoPokemon
       THEN ContenderArm
       ELSE ChallengerArm

\* lines 111-118: the arm (Some, Some) calls process_fight_with_hp, the
\* challenger's pokemon as its contender and the contender's as its challenger
StartEncounter ==
    /\ tf_pc = "loop"
    /\ TeamsLeft
    /\ challenger_pokemon # NoPokemon
    /\ contender_pokemon # NoPokemon
    /\ EnterFight(challenger_pokemon, contender_pokemon, tf_challenger_hp,
                  tf_contender_hp)
    /\ tf_pc' = "fight"
    /\ encounters' = encounters + 1
    /\ UNCHANGED <<storeVars, typeVars, argVars, challenger_team, contender_team,
                   challenger_pokemon, contender_pokemon, tf_challenger_hp,
                   tf_contender_hp, tf_log, tf_result, chooser>>

\* a reading of the log that empties both active slots after a faint
AfterEncounter_both ==
    /\ tf_pc = "fight"
    /\ pc = "returned"
    /\ pc' = "idle"
    /\ chooser' = None
    /\ IF Len(log) < 2
       THEN /\ \E outcome \in {"panic: attempt to subtract with overflow",
                               "No fight events returned from pokemon fight"} :
                  Finish(outcome)
            /\ UNCHANGED <<challenger_team, contender_team, challenger_pokemon,
                           contender_pokemon, tf_challenger_hp, tf_contender_hp,
                           tf_log>>
       ELSE IF log[Len(log) - 1].event_name # "Fainted"
       THEN /\ Finish("The pre-last fight event was not a fainted event")
            /\ UNCHANGED <<challenger_team, contender_team, challenger_pokemon,
                           contender_pokemon, tf_challenger_hp, tf_contender_hp,
                           tf_log>>
       ELSE LET fainted == log[Len(log) - 1].pokemon
                last == log[Len(log)]
                should_remove_challenger == challenger_pokemon.name = fainted
                should_remove_contender ==
                    /\ ~should_remove_challenger
                    /\ contender_pokemon.name = fainted
            IN  /\ challenger_team' = IF should_remove_challenger
                                      THEN Retain(challenger_team, fainted)
                                      ELSE challenger_team
                /\ contender_team' = IF should_remove_contender
                                     THEN Retain(contender_team, fainted)
                                     ELSE contender_team
                /\ IF last.event_name # "PokemonWinner"
                   THEN /\ Finish("The last fight event was not a pokemon winner event")
                        /\ UNCHANGED <<challenger_pokemon, contender_pokemon,
                                       tf_challenger_hp, tf_contender_hp, tf_log>>
                   ELSE /\ tf_challenger_hp' =
                               IF challenger_pokemon.name = last.pokemon
                               THEN last.hp_left ELSE tf_challenger_hp
                        /\ tf_contender_hp' =
                               IF /\ challenger_pokemon.name # last.pokemon
                                  /\ contender_pokemon.name = last.pokemon
                               THEN last.hp_left ELSE tf_contender_hp
                        /\ tf_log' = tf_log \o log
                        /\ challenger_pokemon' = IF should_remove_challenger
                                                 THEN NoPokemon
                                                 ELSE challenger_pokemon
                        /\ contender_pokemon' = NoPokemon
                        /\ tf_pc' = "loop"
                        /\ UNCHANGED tf_result
    /\ UNCHANGED <<storeVars, typeVars, contender, challenger, contender_hp, challenger_hp,
                   last_to_attack, log, damage_mult, checks, round, rounds,
                   resolved, argVars, encounters>>

\* lines 120-169: the returned log is read, the fainted pokemon leaves its
\* roster, the winner's HP is kept, and the log is appended.  `len() - 2`
\* on a log of fewer than two events overflows: a panic where overflow is
\* checked, otherwise an index that get() answers with None
AfterEncounter ==
    /\ tf_pc = "fight"
    /\ pc = "returned"
    /\ pc' = "idle"
    /\ chooser' = None
    /\ IF Len(log) < 2
       THEN /\ \E outcome \in {"panic: attempt to subtract with overflow",
                               "No fight events returned from pokemon fight"} :
                  Finish(outcome)
            /\ UNCHANGED <<challenger_team, contender_team, challenger_pokemon,
                           contender_pokemon, tf_challenger_hp, tf_contender_hp,
                           tf_log>>
       ELSE IF log[Len(log) - 1].event_name # "Fainted"
       THEN /\ Finish("The pre-last fight event was not a fainted event")
            /\ UNCHANGED <<challenger_team, contender_team, challenger_pokemon,
                           contender_pokemon, tf_challenger_hp, tf_contender_hp,
                           tf_log>>
       ELSE LET fainted == log[Len(log) - 1].pokemon
                last == log[Len(log)]
                should_remove_challenger == challenger_pokemon.name = fainted
                should_remove_contender ==
                    /\ ~should_remove_challenger
                    /\ contender_pokemon.name = fainted
            IN  /\ challenger_team' = IF should_remove_challenger
                                      THEN Retain(challenger_team, fainted)
                                      ELSE challenger_team
                /\ contender_team' = IF should_remove_contender
                                     THEN Retain(contender_team, fainted)
                                     ELSE contender_team
                /\ IF last.event_name # "PokemonWinner"
                   THEN /\ Finish("The last fight event was not a pokemon winner event")
                        /\ UNCHANGED <<challenger_pokemon, contender_pokemon,
                                       tf_challenger_hp, tf_contender_hp, tf_log>>
                   ELSE /\ tf_challenger_hp' =
                               IF challenger_pokemon.name = last.pokemon
                               THEN last.hp_left ELSE tf_challenger_hp
                        /\ tf_contender_hp' =
                               IF /\ challenger_pokemon.name # last.pokemon
                                  /\ contender_pokemon.name = last.pokemon
                               THEN last.hp_left ELSE tf_contender_hp
                        /\ tf_log' = tf_log \o log
                        /\ challenger_pokemon' = IF should_remove_challenger
                                                 THEN NoPokemon
                                                 ELSE challenger_pokemon
                        /\ contender_pokemon' = IF should_remove_contender
                                                THEN NoPokemon
                                                ELSE contender_pokemon
                        /\ tf_pc' = "loop"
                        /\ UNCHANGED tf_result
    /\ UNCHANGED <<storeVars, typeVars, contender, challenger, contender_hp, challenger_hp,
                   last_to_attack, log, damage_mult, checks, round, rounds,
                   resolved, argVars, encounters>>

\* lines 112-117: process_fight_with_hp returned the error of a resolve, and
\* `?` returns it
EncounterFailed ==
    /\ tf_pc = "fight"
    /\ pc = "failed"
    /\ pc' = "idle"
    /\ Finish("No rows")
    /\ UNCHANGED <<storeVars, typeVars, contender, challenger, contender_hp,
                   challenger_hp, last_to_attack, log, damage_mult, checks,
                   round, rounds, resolved, argVars, challenger_team,
                   contender_team, challenger_pokemon, contender_pokemon,
                   tf_challenger_hp, tf_contender_hp, tf_log, chooser,
                   encounters>>

\* lines 67 and 173: a roster is empty, the loop ends and the log is returned
ReturnLog ==
    /\ tf_pc = "loop"
    /\ ~TeamsLeft
    /\ Finish("Ok")
    /\ UNCHANGED <<storeVars, typeVars, fightVars, argVars, challenger_team, contender_team,
                   challenger_pokemon, contender_pokemon, tf_challenger_hp,
                   tf_contender_hp, tf_log, chooser, encounters>>

\* the pokemon the trainers' teams are drawn from
TrainerDex ==
    { Pokemon("Pikachu", 35, 55, 40, 90, "Electric", None),
      Pokemon("Squirtle", 39, 52, 43, 84, "Water", None),
      Pokemon("Charmander", 39, 52, 43, 65, "Fire", None) }

\* a team: at most MaxTeam pokemon, each owned once
Teams ==
    { t \in UNION { [1..n -> TrainerDex] : n \in 0..MaxTeam } :
          \A i, j \in 1..Len(t) : i # j => t[i].name # t[j].name }

NoFight ==
    /\ contender = NoPokemon
    /\ challenger = NoPokemon
    /\ contender_hp = 0
    /\ challenger_hp = 0
    /\ last_to_attack = NoPokemon
    /\ log = << >>
    /\ damage_mult = MultOne
    /\ checks = << 0, 0, 0, 0 >>
    /\ round = NoRound
    /\ rounds = 0
    /\ resolved = << >>
    /\ pc = "idle"

\* two stored trainers, or one trainer against itself, each with a strategy
InitTrainer ==
    /\ strong_against = Linked(TriangleStrong)
    /\ weak_against = Linked(TriangleWeak)
    /\ NoFight
    /\ \E t \in Teams : challenger_trainer = [name |-> "Ash", team |-> t]
    /\ \/ \E t \in Teams : contender_trainer = [name |-> "Gary", team |-> t]
       \/ contender_trainer = challenger_trainer
    /\ challenger_strat \in Strategies
    /\ contender_strat \in Strategies
    /\ challenger_team = << >>
    /\ contender_team = << >>
    /\ challenger_pokemon = NoPokemon
    /\ contender_pokemon = NoPokemon
    /\ tf_challenger_hp = 0
    /\ tf_contender_hp = 0
    /\ tf_log = << >>
    /\ tf_pc = "start"
    /\ tf_result = None
    /\ chooser = None
    /\ encounters = 0
    /\ NoStore

NextTrainer ==
    \/ StartTrainerFight
    \/ Replace
    \/ StartEncounter
    \/ Round
    \/ Return
    \/ AfterEncounter
    \/ ReturnLog

SpecTrainer == InitTrainer /\ [][NextTrainer]_vars

\* the pokemon of the rosters: one of them has a secondary type
RosterDex ==
    { Pokemon("Pikachu", 35, 55, 40, 90, "Electric", None),
      Pokemon("Squirtle", 39, 52, 43, 84, "Water", None),
      Pokemon("Charmander", 39, 52, 43, 65, "Fire", "Electric") }

Rosters ==
    { t \in UNION { [1..n -> RosterDex] : n \in 0..MaxTeam } :
          \A i, j \in 1..Len(t) : i # j => t[i].name # t[j].name }

\* the types that resolve: all that the pokemon refer to, or all but one
ResolvingTypes == { Types, Types \ {"Electric"}, Types \ {"Fire"} }

RosterStrategies == {"StrongestType", "StrongestAtk"}

\* two trainers whose pokemon refer to types that may fail to resolve
InitRoster ==
    /\ \E stored \in ResolvingTypes :
          /\ strong_against = [t \in stored |-> Linked(TriangleStrong)[t]]
          /\ weak_against = [t \in stored |-> Linked(TriangleWeak)[t]]
    /\ NoFight
    /\ \E t \in Rosters : challenger_trainer = [name |-> "Ash", team |-> t]
    /\ \/ \E t \in Rosters : contender_trainer = [name |-> "Gary", team |-> t]
       \/ contender_trainer = challenger_trainer
    /\ challenger_strat \in RosterStrategies
    /\ contender_strat \in RosterStrategies
    /\ challenger_team = << >>
    /\ contender_team = << >>
    /\ challenger_pokemon = NoPokemon
    /\ contender_pokemon = NoPokemon
    /\ tf_challenger_hp = 0
    /\ tf_contender_hp = 0
    /\ tf_log = << >>
    /\ tf_pc = "start"
    /\ tf_result = None
    /\ chooser = None
    /\ encounters = 0
    /\ NoStore

NextRoster ==
    \/ StartTrainerFight
    \/ Replace
    \/ StartEncounter
    \/ Round
    \/ Return
    \/ EncounterFailed
    \/ AfterEncounter
    \/ ReturnLog

SpecRoster == InitRoster /\ [][NextRoster]_vars

----------------------------------------------------------------------------
(* Query text: identifiers and property values as the code writes them into *)
(* a query and as the store reads them back.  A string is a sequence of     *)
(* characters; a u32 is written as its decimal digits.                      *)

Quote == "'"
DoubleQuote == "\""
Backslash == "\\"

DigitChars == {"0", "1", "2", "3", "4", "5", "6", "7", "8", "9"}

\* str::parse::<u64>().is_ok(), for strings short enough not to overflow
IsU64(s) == s # << >> /\ \A i \in 1..Len(s) : s[i] \in DigitChars

\* step 1 of sanitize: s.replace("\\", "")
StripBackslashes(s) == LET Keep(c) == c # Backslash IN SelectSeq(s, Keep)

\* steps 2 and 3 of sanitize: a backslash before every quote and double quote
RECURSIVE EscapeQuotes(_)
EscapeQuotes(s) ==
    IF s = << >> THEN << >>
    ELSE (IF Head(s) \in {Quote, DoubleQuote} THEN <<Backslash, Head(s)>>
          ELSE <<Head(s)>>) \o EscapeQuotes(Tail(s))

\* a sanitize that escapes the quotes of the string as it is given
sanitize_keeping(s) == EscapeQuotes(s)

\* database::sanitize
sanitize(s) == EscapeQuotes(StripBackslashes(s))

\* format!("'{}'", s)
Quoted(s) == <<Quote>> \o s \o <<Quote>>

\* the identifier of a reference, or of a get, as written into a query:
\* digits as they are, everything else sanitized and in single quotes
ident_db(ident) == IF IsU64(ident) THEN ident ELSE Quoted(sanitize(ident))

\* a property value of the store: a string or an integer
StrVal(s) == [t |-> "str", v |-> s]

RECURSIVE StripZeros(_)
StripZeros(s) ==
    IF Len(s) > 1 /\ Head(s) = "0" THEN StripZeros(Tail(s)) ELSE s

IntVal(digits) == [t |-> "int", v |-> StripZeros(digits)]

\* the body of a single-quoted literal as the store reads it: a backslash
\* takes the next character literally, a bare quote ends the literal too early
RECURSIVE LiteralBody(_)
LiteralBody(s) ==
    IF s = << >> THEN [ok |-> TRUE, v |-> << >>]
    ELSE IF Head(s) = Backslash
    THEN IF Len(s) >= 2 /\ s[2] \in {Quote, DoubleQuote, Backslash}
         THEN LET rest == LiteralBody(Tail(Tail(s)))
              IN  [ok |-> rest.ok, v |-> <<s[2]>> \o rest.v]
         ELSE [ok |-> FALSE, v |-> << >>]
    ELSE IF Head(s) = Quote THEN [ok |-> FALSE, v |-> << >>]
    ELSE LET rest == LiteralBody(Tail(s))
         IN  [ok |-> rest.ok, v |-> <<Head(s)>> \o rest.v]

\* the value the store reads from the text of an expression: an integer
\* literal, a string literal, or nothing, and the query fails: an
\* unterminated literal is a syntax error and a bare word a variable nobody
\* bound (the queries bind a, b, n and r only, which no name below is)
CypherValue(text) ==
    IF IsU64(text) THEN [ok |-> TRUE, val |-> IntVal(text)]
    ELSE IF Len(text) >= 2 /\ text[1] = Quote /\ text[Len(text)] = Quote
    THEN LET body == LiteralBody(SubSeq(text, 2, Len(text) - 1))
         IN  [ok |-> body.ok, val |-> StrVal(body.v)]
    ELSE [ok |-> FALSE, val |-> StrVal(<< >>)]

----------------------------------------------------------------------------
(* The entity kinds: DbRepr, DbPut and the relationship types of DbLink *)

Kinds == {"Pokemon", "PokemonType", "Trainer", "STATUS"}

\* DbRepr::DB_IDENTIFIER_FIELD
DB_IDENTIFIER_FIELD(kind) == IF kind = "STATUS" THEN "id" ELSE "name"

\* DbLink::RelationshipType of a kind, as_db_string
Relationships(kind) ==
    IF kind = "Pokemon" THEN {"PrimaryType", "SecondaryType"}
    ELSE IF kind = "PokemonType" THEN {"StrongAgainst", "WeakAgainst"}
    ELSE IF kind = "Trainer" THEN {"Owns"}
    ELSE {}

\* the T of DbLink<T>
TargetKind(kind) == IF kind = "Trainer" THEN "Pokemon" ELSE "PokemonType"

\* an entity value in memory: its name (the id of a Status), its other
\* scalar fields, and per relationship type the references it holds
Entity(kind, name, scalars, rels) ==
    [kind |-> kind, name |-> name, scalars |-> scalars, rels |-> rels]

\* DbRepr::get_identifier (get_db_identifier): Pokemon and PokemonType quote
\* and sanitize the name, Trainer and the tests' Status give the bare field
get_identifier(e) ==
    IF e.kind \in {"Pokemon", "PokemonType"} THEN Quoted(sanitize(e.name))
    ELSE e.name

Field(name, text) == [field |-> name, text |-> text]

\* DbPut::put_args: the property map of the MERGE, braces included or not
put_args(e) ==
    IF e.kind = "Pokemon"
    THEN [braces |-> TRUE,
          fields |-> << Field("name", Quoted(sanitize(e.name))),
                        Field("hp", e.scalars[1]),
                        Field("attack", e.scalars[2]),
                        Field("defense", e.scalars[3]),
                        Field("agility", e.scalars[4]) >>]
    ELSE IF e.kind = "PokemonType"
    THEN [braces |-> TRUE,
          fields |-> << Field("name", Quoted(sanitize(e.name))) >>]
    ELSE IF e.kind = "Trainer"
    THEN [braces |-> FALSE,
          fields |-> << Field("name", Quoted(sanitize(e.name))) >>]
    ELSE [braces |-> TRUE,
          fields |-> << Field("id", e.name),
                        Field("status", Quoted(e.scalars[1])) >>]

----------------------------------------------------------------------------
(* The graph store, as far as the queries of database/*.rs use it *)

Node(id, kind, props) == [id |-> id, kind |-> kind, props |-> props]

Edge(from, label, to) == [from |-> from, label |-> label, to |-> to]

\* every value of a property map can be read
FieldsOk(fields) == \A i \in 1..Len(fields) : CypherValue(fields[i].text).ok

\* the property map { field: value, ... } of a query
PropsOf(fields) ==
    [f \in { fields[i].field : i \in 1..Len(fields) } |->
        CypherValue(fields[CHOOSE i \in 1..Len(fields) :
                               fields[i].field = f].text).val]

\* (n:kind {props}) matches the node
HasProps(n, kind, props) ==
    /\ n.kind = kind
    /\ \A f \in DOMAIN props : f \in DOMAIN n.props /\ n.props[f] = props[f]

\* MATCH (n:kind) WHERE n.field = <token>: values of different types are
\* not equal
NodesWhere(nodes, kind, field, token) ==
    { n \in nodes : /\ n.kind = kind
                    /\ field \in DOMAIN n.props
                    /\ n.props[field] = CypherValue(token).val }

\* the id the store gives the next node it creates: the smallest one free
FreeId(nodes) ==
    CHOOSE i \in 1..(Cardinality(nodes) + 1) :
        /\ \A n \in nodes : n.id # i
        /\ \A j \in 1..(i - 1) : \E n \in nodes : n.id = j

\* "MERGE (n:<kind> <put_args>)": a node with these properties is created
\* unless one exists; without braces the text is not a query
MergeNode(nodes, next, kind, args) ==
    IF ~args.braces \/ ~FieldsOk(args.fields)
    THEN [ok |-> FALSE, nodes |-> nodes, next |-> next]
    ELSE IF \E n \in nodes : HasProps(n, kind, PropsOf(args.fields))
    THEN [ok |-> TRUE, nodes |-> nodes, next |-> next]
    ELSE LET created == nodes \cup {Node(next, kind, PropsOf(args.fields))}
         IN  [ok |-> TRUE, nodes |-> created, next |-> FreeId(created)]

\* the rows of "MATCH (a:<kind>), (b:<target>) WHERE a.<f> = <self> AND
\* b.<g> = <other>": every pair of a matching a and a matching b
PairRows(nodes, kind, self_token, other_token) ==
    { <<a, b>> \in
        NodesWhere(nodes, kind, DB_IDENTIFIER_FIELD(kind), self_token)
        \X NodesWhere(nodes, TargetKind(kind),
                      DB_IDENTIFIER_FIELD(TargetKind(kind)), other_token) :
        TRUE }

\* the edges (a)-[:label]->(b) of the rows
RowEdges(rows, label) == { Edge(r[1].id, label, r[2].id) : r \in rows }

\* the query of link_to, unlink_from and is_linked_by can be read
PairQueryOk(self_token, other_token) ==
    CypherValue(self_token).ok /\ CypherValue(other_token).ok

\* every enumeration of a finite set: the store returns rows in its own order
Orderings(S) ==
    { q \in [1..Cardinality(S) -> S] :
          \A i, j \in 1..Cardinality(S) : i # j => q[i] # q[j] }

\* Promised::promise_from_node: the reference holds the node's identifier
promise_from_node(n) == n.props[DB_IDENTIFIER_FIELD(n.kind)].v

\* DbLink::get_linked_by_id: "MATCH (a:<kind> {<f>: <id>})-[:<label>]->
\* (b:<target>) RETURN b", each b as a reference, in the store's order
get_linked_by_id(nodes, edges, kind, label, token) ==
    LET from == NodesWhere(nodes, kind, DB_IDENTIFIER_FIELD(kind), token)
        rows == { ed \in edges :
                    /\ ed.label = label
                    /\ \E a \in from : a.id = ed.from
                    /\ \E b \in nodes : b.id = ed.to /\ b.kind = TargetKind(kind) }
        Target(ed) == CHOOSE b \in nodes : b.id = ed.to
    IN  { [i \in 1..Len(q) |-> promise_from_node(Target(q[i]))] :
              q \in Orderings(rows) }

----------------------------------------------------------------------------
(* DbGet: reading entities back *)

Failed(n) == [ok |-> FALSE, entity |-> NoEntity, reads |-> n]

Loaded(e, n) == [ok |-> TRUE, entity |-> e, reads |-> n]

\* node.get::<u32>(field) succeeds
HasU32(n, field) == field \in DOMAIN n.props /\ n.props[field].t = "int"

\* node.get::<String>(field) succeeds
HasString(n, field) == field \in DOMAIN n.props /\ n.props[field].t = "str"

\* a from_db_node that resolves every linked type with a further node read
TypeFromDbNode_resolving(nodes, edges, n) ==
    IF ~HasString(n, "name") THEN { Failed(0) }
    ELSE LET name == n.props["name"].v
             token == Quoted(sanitize(name))
         IN  { Loaded(Entity("PokemonType", name, << >>,
                             [NoRels EXCEPT !["StrongAgainst"] = strong,
                                            !["WeakAgainst"] = weak]),
                      2 + Len(strong) + Len(weak)) :
                 strong \in get_linked_by_id(nodes, edges, "PokemonType",
                                             "StrongAgainst", token),
                 weak \in get_linked_by_id(nodes, edges, "PokemonType",
                                           "WeakAgainst", token) }

\* PokemonType::from_db_node: the name, then one traversal per relationship
\* type; the linked types stay references
TypeFromDbNode(nodes, edges, n) ==
    IF ~HasString(n, "name") THEN { Failed(0) }
    ELSE LET name == n.props["name"].v
             token == Quoted(sanitize(name))
         IN  { Loaded(Entity("PokemonType", name, << >>,
                             [NoRels EXCEPT !["StrongAgainst"] = strong,
                                            !["WeakAgainst"] = weak]), 2) :
                 strong \in get_linked_by_id(nodes, edges, "PokemonType",
                                             "StrongAgainst", token),
                 weak \in get_linked_by_id(nodes, edges, "PokemonType",
                                           "WeakAgainst", token) }

\* Pokemon::from_db_node: the first PrimaryType row or an error, the first
\* SecondaryType row if any, then the stats
PokemonFromDbNode(nodes, edges, n) ==
    IF ~HasString(n, "name") THEN { Failed(0) }
    ELSE LET name == n.props["name"].v
             token == Quoted(sanitize(name))
             primary == get_linked_by_id(nodes, edges, "Pokemon",
                                         "PrimaryType", token)
             secondary == get_linked_by_id(nodes, edges, "Pokemon",
                                           "SecondaryType", token)
         IN  IF primary = { << >> } THEN { Failed(1) }
             ELSE IF \E f \in {"hp", "attack", "defense", "agility"} :
                         ~HasU32(n, f)
             THEN { Failed(2) }
             ELSE { Loaded(Entity("Pokemon", name,
                                  << n.props["hp"].v, n.props["attack"].v,
                                     n.props["defense"].v, n.props["agility"].v >>,
                                  [NoRels EXCEPT
                                      !["PrimaryType"] = <<p[1]>>,
                                      !["SecondaryType"] =
                                          IF q = << >> THEN << >> ELSE <<q[1]>>]),
                           2) :
                      p \in primary, q \in secondary }

\* Trainer::from_db_node: the name and the team, as references
TrainerFromDbNode(nodes, edges, n) ==
    IF ~HasString(n, "name") THEN { Failed(0) }
    ELSE LET name == n.props["name"].v
         IN  { Loaded(Entity("Trainer", name, << >>,
                             [NoRels EXCEPT !["Owns"] = team]), 1) :
                 team \in get_linked_by_id(nodes, edges, "Trainer", "Owns",
                                           Quoted(sanitize(name))) }

\* tests/database.rs, Status::from_db_node: the id and the status, read as
\* strings as the test asserts them
StatusFromDbNode(n) ==
    IF "id" \notin DOMAIN n.props \/ ~HasString(n, "status") THEN { Failed(0) }
    ELSE { Loaded(Entity("STATUS", n.props["id"].v, << n.props["status"].v >>,
                         NoRels), 0) }

\* DbGet::from_db_node, by kind: the results the store's row order allows
from_db_node(nodes, edges, n) ==
    IF n.kind = "PokemonType" THEN TypeFromDbNode(nodes, edges, n)
    ELSE IF n.kind = "Pokemon" THEN PokemonFromDbNode(nodes, edges, n)
    ELSE IF n.kind = "Trainer" THEN TrainerFromDbNode(nodes, edges, n)
    ELSE StatusFromDbNode(n)

\* get_db_node: the identifier is written as digits or quoted, the first row
\* is taken, no row is the error "No rows"
get_db_node(nodes, kind, database_identifier) ==
    NodesWhere(nodes, kind, DB_IDENTIFIER_FIELD(kind),
               ident_db(database_identifier))

\* DbGet::get_first: one node read, then from_db_node
get_first(nodes, edges, kind, database_identifier) ==
    LET rows == get_db_node(nodes, kind, database_identifier)
    IN  IF rows = {} THEN { Failed(1) }
        ELSE { [r EXCEPT !.reads = r.reads + 1] :
                 r \in UNION { from_db_node(nodes, edges, n) : n \in rows } }

\* DbGet::from_db_identifier: one node read, then from_db_node
from_db_identifier(nodes, edges, kind, ident) ==
    LET rows == get_db_node(nodes, kind, ident)
    IN  IF rows = {} THEN { Failed(1) }
        ELSE { [r EXCEPT !.reads = r.reads + 1] :
                 r \in UNION { from_db_node(nodes, edges, n) : n \in rows } }

\* Promised::resolve: from_db_identifier of the promise's identifier
resolve(nodes, edges, kind, ident) == from_db_identifier(nodes, edges, kind, ident)

\* the store reads of the first k reconstructions of a get_all
RECURSIVE ReadsUpTo(_, _)
ReadsUpTo(picks, k) ==
    IF k = 0 THEN 0 ELSE picks[k].reads + ReadsUpTo(picks, k - 1)

\* DbGet::get_all: every node of the kind, in the store's order, each
\* reconstructed; the first failure fails the call
get_all(nodes, edges, kind) ==
    LET ofKind == { n \in nodes : n.kind = kind }
        all == UNION { from_db_node(nodes, edges, n) : n \in ofKind }
        Runs(order) == { picks \in [1..Len(order) -> all] :
                           \A i \in 1..Len(order) :
                               picks[i] \in from_db_node(nodes, edges, order[i]) }
        Outcome(picks) ==
            IF \A i \in 1..Len(picks) : picks[i].ok
            THEN [ok |-> TRUE,
                  entities |-> [i \in 1..Len(picks) |-> picks[i].entity],
                  reads |-> 1 + ReadsUpTo(picks, Len(picks))]
            ELSE [ok |-> FALSE, entities |-> << >>,
                  reads |-> 1 + ReadsUpTo(picks,
                                 CHOOSE k \in 1..Len(picks) :
                                     /\ ~picks[k].ok
                                     /\ \A j \in 1..(k - 1) : picks[j].ok)]
    IN  { Outcome(picks) : picks \in UNION { Runs(order) :
                                                order \in Orderings(ofKind) } }

----------------------------------------------------------------------------
(* DbLink: the side effects of the entity kinds *)

Kept(e) == [ok |-> TRUE, entity |-> e]

Refused(e) == [ok |-> FALSE, entity |-> e]

\* Vec::retain(|t| t.ident() != other.ident())
RetainOthers(refs, other) == LET Keep(t) == t # other IN SelectSeq(refs, Keep)

\* link_side_effect: a Pokemon sets the field, a type or a trainer pushes
link_side_effect(e, other, rel) ==
    IF e.kind = "Pokemon"
    THEN Kept([e EXCEPT !.rels[rel] = <<other>>])
    ELSE Kept([e EXCEPT !.rels[rel] = Append(@, other)])

\* unlink_side_effect: a Pokemon refuses to lose its primary type and clears
\* its secondary type, a type or a trainer drops the references to other
unlink_side_effect(e, other, rel) ==
    IF e.kind = "Pokemon"
    THEN IF rel = "PrimaryType" THEN Refused(e)
         ELSE Kept([e EXCEPT !.rels[rel] = << >>])
    ELSE Kept([e EXCEPT !.rels[rel] = RetainOthers(@, other)])

----------------------------------------------------------------------------
(* The repository and linker calls, one action per call *)

\* the names entities are created with: a word and a number
NewNames == { <<"x">>, <<"7">> }

\* the names references and reads are made with
Names == NewNames \cup { <<"y">> }

\* the identifiers the references handed to the linker hold
RefNames == { <<"x">>, <<"y">> }

\* the stats of Pikachu and of Squirtle, as decimal digits
StatVals == { << <<"3", "5">>, <<"5", "5">>, <<"4", "0">>, <<"9", "0">> >>,
              << <<"3", "9">>, <<"5", "2">>, <<"4", "3">>, <<"8", "4">> >> }

\* the status texts of the tests' Status values
StatusVals == { <<"o", "k">>, <<"n", "o">> }

\* the entity values a caller constructs: a type and a trainer without
\* references, a pokemon with its types, the Status of the tests
NewEntities ==
    { Entity("PokemonType", n, << >>, NoRels) : n \in NewNames }
    \cup { Entity("Trainer", n, << >>, NoRels) : n \in NewNames }
    \cup { Entity("STATUS", n, << st >>, NoRels) :
              n \in NewNames, st \in StatusVals }
    \cup { Entity("Pokemon", n, st,
                  [NoRels EXCEPT !["PrimaryType"] = <<p>>,
                                 !["SecondaryType"] = sec]) :
              n \in NewNames, st \in StatVals, p \in NewNames,
              sec \in { << >>, << <<"x">> >> } }

Call(op, kind, ident, scalars, rel, other) ==
    [op |-> op, kind |-> kind, ident |-> ident, scalars |-> scalars,
     rel |-> rel, other |-> other]

\* the call is recorded with what it returned
Returns(call, ok) ==
    /\ last_call' = call
    /\ repeated' = (call = last_call)
    /\ call_result' = IF ok THEN "Ok" ELSE "Err"
    /\ response' = None
    /\ lookup_error' = None
    /\ requests' = requests

\* DbPut::put_self_only
PutSelfOnly ==
    \E e \in NewEntities :
        LET m == MergeNode(db_nodes, db_next, e.kind, put_args(e))
        IN  /\ Cardinality(m.nodes) <= MaxNodes
            /\ db_nodes' = m.nodes
            /\ db_next' = m.next
            /\ entity' = e
            /\ Returns(Call("put_self_only", e.kind, e.name, e.scalars, None,
                            << >>), m.ok)
            /\ reads' = 0
            /\ sync' = FALSE
            /\ linked' = FALSE
            /\ got_all' = << >>
            /\ UNCHANGED db_edges
            /\ UNCHANGED <<typeVars, fightVars, argVars, trainerVars>>

\* the store write of link_to: "MATCH (a), (b) WHERE ... MERGE (a)-[:rel]->(b)"
LinkEdges(nodes, edges, e, other, rel) ==
    edges \cup RowEdges(PairRows(nodes, e.kind, get_identifier(e),
                                 ident_db(other)), rel)

\* the store write of unlink_from: "... MATCH (a)-[r:rel]->(b) DELETE r"
UnlinkEdges(nodes, edges, e, other, rel) ==
    edges \ RowEdges(PairRows(nodes, e.kind, get_identifier(e),
                              ident_db(other)), rel)

\* Pokemon::put_with_relationships and Pokemon::new_to_db: put_self_only,
\* link_to the primary type, link_to the secondary type if there is one
PutWithRelationships ==
    \E e \in { x \in NewEntities : x.kind = "Pokemon" } :
        LET m == MergeNode(db_nodes, db_next, e.kind, put_args(e))
            primary == e.rels["PrimaryType"][1]
            first == LinkEdges(m.nodes, db_edges, e, primary, "PrimaryType")
            second == IF e.rels["SecondaryType"] = << >> THEN first
                      ELSE LinkEdges(m.nodes, first, e,
                                     e.rels["SecondaryType"][1], "SecondaryType")
        IN  /\ Cardinality(m.nodes) <= MaxNodes
            /\ db_nodes' = m.nodes
            /\ db_next' = m.next
            /\ db_edges' = IF m.ok THEN second ELSE db_edges
            /\ entity' = e
            /\ Returns(Call("put_with_relationships", e.kind, e.name, e.scalars,
                            None, << >>), m.ok)
            /\ reads' = 0
            /\ sync' = FALSE
            /\ linked' = FALSE
            /\ got_all' = << >>
            /\ UNCHANGED <<typeVars, fightVars, argVars, trainerVars>>

\* DbGet::get_first, the caller keeping the entity it returns
GetFirst ==
    \E kind \in Kinds, ident \in Names :
    \E r \in get_first(db_nodes, db_edges, kind, ident) :
        /\ entity' = IF r.ok THEN r.entity ELSE entity
        /\ sync' = IF r.ok THEN TRUE ELSE sync
        /\ reads' = r.reads
        /\ Returns(Call("get_first", kind, ident, << >>, None, << >>), r.ok)
        /\ linked' = FALSE
        /\ got_all' = << >>
        /\ UNCHANGED <<db_nodes, db_edges, db_next>>
        /\ UNCHANGED <<typeVars, fightVars, argVars, trainerVars>>

\* DbGet::get_all
GetAll ==
    \E kind \in Kinds :
    \E r \in get_all(db_nodes, db_edges, kind) :
        /\ got_all' = r.entities
        /\ reads' = r.reads
        /\ Returns(Call("get_all", kind, << >>, << >>, None, << >>), r.ok)
        /\ linked' = FALSE
        /\ UNCHANGED <<db_nodes, db_edges, db_next, entity, sync>>
        /\ UNCHANGED <<typeVars, fightVars, argVars, trainerVars>>

\* DbLink::link_to on the held entity: the store write, then the side effect
LinkTo ==
    \E other \in RefNames, rel \in Relationships(entity.kind) :
        LET ok == PairQueryOk(get_identifier(entity), ident_db(other))
            effect == link_side_effect(entity, other, rel)
        IN  /\ entity.kind # "Pokemon" => Len(entity.rels[rel]) < MaxRefs
            /\ db_edges' = IF ok THEN LinkEdges(db_nodes, db_edges, entity,
                                                other, rel)
                           ELSE db_edges
            /\ entity' = IF ok THEN effect.entity ELSE entity
            /\ Returns(Call("link_to", entity.kind, entity.name, << >>, rel,
                            other), ok /\ effect.ok)
            /\ sync' = (sync /\ ok /\ effect.ok)
            /\ reads' = 0
            /\ linked' = FALSE
            /\ got_all' = << >>
            /\ UNCHANGED <<db_nodes, db_next>>
            /\ UNCHANGED <<typeVars, fightVars, argVars, trainerVars>>

\* an unlink_from that rolls the store write back when the side effect fails
UnlinkFrom_rollback ==
    \E other \in RefNames, rel \in Relationships(entity.kind) :
        LET ok == PairQueryOk(get_identifier(entity), ident_db(other))
            effect == unlink_side_effect(entity, other, rel)
        IN  /\ db_edges' = IF ok /\ effect.ok
                           THEN UnlinkEdges(db_nodes, db_edges, entity, other,
                                            rel)
                           ELSE db_edges
            /\ entity' = IF ok THEN effect.entity ELSE entity
            /\ Returns(Call("unlink_from", entity.kind, entity.name, << >>, rel,
                            other), ok /\ effect.ok)
            /\ sync' = (sync /\ ok /\ effect.ok)
            /\ reads' = 0
            /\ linked' = FALSE
            /\ got_all' = << >>
            /\ UNCHANGED <<db_nodes, db_next>>
            /\ UNCHANGED <<typeVars, fightVars, argVars, trainerVars>>

\* DbLink::unlink_from on the held entity: the store write, then the side
\* effect
UnlinkFrom ==
    \E other \in RefNames, rel \in Relationships(entity.kind) :
        LET ok == PairQueryOk(get_identifier(entity), ident_db(other))
            effect == unlink_side_effect(entity, other, rel)
        IN  /\ db_edges' = IF ok THEN UnlinkEdges(db_nodes, db_edges, entity,
                                                  other, rel)
                           ELSE db_edges
            /\ entity' = IF ok THEN effect.entity ELSE entity
            /\ Returns(Call("unlink_from", entity.kind, entity.name, << >>, rel,
                            other), ok /\ effect.ok)
            /\ sync' = (sync /\ ok /\ effect.ok)
            /\ reads' = 0
            /\ linked' = FALSE
            /\ got_all' = << >>
            /\ UNCHANGED <<db_nodes, db_next>>
            /\ UNCHANGED <<typeVars, fightVars, argVars, trainerVars>>

\* Pokemon::set_secondary_type on the held pokemon: unlink_from the old
\* secondary type if there is one, then link_to the new one or clear the field
SetSecondaryType ==
    \E new_secondary_type \in { << >> } \cup { <<t>> : t \in RefNames } :
        LET old == entity.rels["SecondaryType"]
            unlinked == IF old = << >> THEN db_edges
                        ELSE UnlinkEdges(db_nodes, db_edges, entity, old[1],
                                         "SecondaryType")
            after == IF new_secondary_type = << >> THEN unlinked
                     ELSE LinkEdges(db_nodes, unlinked, entity,
                                    new_secondary_type[1], "SecondaryType")
        IN  /\ entity.kind = "Pokemon"
            /\ db_edges' = after
            /\ entity' = [entity EXCEPT !.rels["SecondaryType"] =
                                            new_secondary_type]
            /\ Returns(Call("set_secondary_type", entity.kind, entity.name,
                            << >>, "SecondaryType",
                            IF new_secondary_type = << >> THEN << >>
                            ELSE new_secondary_type[1]), TRUE)
            /\ sync' = FALSE
            /\ reads' = 0
            /\ linked' = FALSE
            /\ got_all' = << >>
            /\ UNCHANGED <<db_nodes, db_next>>
            /\ UNCHANGED <<typeVars, fightVars, argVars, trainerVars>>

\* a resolve after which the holder keeps the resolved value in place of
\* what it held
Resolve_adopting ==
    \E rel \in Relationships(entity.kind) :
    \E i \in 1..Len(entity.rels[rel]) :
    \E r \in resolve(db_nodes, db_edges, TargetKind(entity.kind),
                     entity.rels[rel][i]) :
        /\ got_all' = IF r.ok THEN << r.entity >> ELSE << >>
        /\ reads' = r.reads
        /\ entity' = IF r.ok THEN r.entity ELSE entity
        /\ Returns(Call("resolve", TargetKind(entity.kind),
                        entity.rels[rel][i], << >>, rel, << >>), r.ok)
        /\ linked' = FALSE
        /\ UNCHANGED <<db_nodes, db_edges, db_next, sync>>
        /\ UNCHANGED <<typeVars, fightVars, argVars, trainerVars>>

\* Promise::resolve (and the Promise arm of MaybePromise::resolve) on a
\* reference the held entity holds; the holder is borrowed, the value is
\* returned to the caller
Resolve ==
    \E rel \in Relationships(entity.kind) :
    \E i \in 1..Len(entity.rels[rel]) :
    \E r \in resolve(db_nodes, db_edges, TargetKind(entity.kind),
                     entity.rels[rel][i]) :
        /\ got_all' = IF r.ok THEN << r.entity >> ELSE << >>
        /\ reads' = r.reads
        /\ Returns(Call("resolve", TargetKind(entity.kind),
                        entity.rels[rel][i], << >>, rel, << >>), r.ok)
        /\ linked' = FALSE
        /\ UNCHANGED <<db_nodes, db_edges, db_next, entity, sync>>
        /\ UNCHANGED <<typeVars, fightVars, argVars, trainerVars>>

\* the Concrete arm of MaybePromise::resolve, on MaybePromise::from_concrete
\* of the held entity: the held value is returned
ResolveConcrete ==
    \E c \in { entity } :
        /\ got_all' = << c >>
        /\ reads' = 0
        /\ Returns(Call("resolve_concrete", c.kind, c.name, c.scalars, None,
                        << >>), TRUE)
        /\ linked' = FALSE
        /\ UNCHANGED <<db_nodes, db_edges, db_next, entity, sync>>
        /\ UNCHANGED <<typeVars, fightVars, argVars, trainerVars>>

\* DbLink::is_linked_by on the held entity: true if the query returns a row
IsLinkedBy ==
    \E other \in RefNames, rel \in Relationships(entity.kind) :
        LET ok == PairQueryOk(get_identifier(entity), ident_db(other))
        IN  /\ linked' = IF ok THEN PairRows(db_nodes, entity.kind,
                                             get_identifier(entity),
                                             ident_db(other)) # {}
                         ELSE linked
            /\ Returns(Call("is_linked_by", entity.kind, entity.name, << >>,
                            rel, other), ok)
            /\ reads' = 1
            /\ got_all' = << >>
            /\ UNCHANGED <<db_nodes, db_edges, db_next, entity, sync>>
            /\ UNCHANGED <<typeVars, fightVars, argVars, trainerVars>>

\* the identifier as DbDelete::delete writes it into its query
delete_identifier(database_identifier) == sanitize(database_identifier)

\* "MATCH (n:<kind>) WHERE n.<field> = <token> DELETE n": the store refuses
\* to delete a node that still has relationships
DeleteNodes(nodes, edges, kind, token) ==
    LET hit == NodesWhere(nodes, kind, DB_IDENTIFIER_FIELD(kind), token)
    IN  IF ~CypherValue(token).ok
           \/ \E n \in hit, d \in edges : d.from = n.id \/ d.to = n.id
        THEN [ok |-> FALSE, nodes |-> nodes]
        ELSE [ok |-> TRUE, nodes |-> nodes \ hit]

\* DbDelete::delete
Delete ==
    \E kind \in Kinds, ident \in Names :
        LET m == DeleteNodes(db_nodes, db_edges, kind,
                             delete_identifier(ident))
        IN  /\ db_nodes' = m.nodes
            /\ db_next' = FreeId(m.nodes)
            /\ Returns(Call("delete", kind, ident, << >>, None, << >>), m.ok)
            /\ reads' = 0
            /\ sync' = FALSE
            /\ linked' = FALSE
            /\ got_all' = << >>
            /\ UNCHANGED <<db_edges, entity>>
            /\ UNCHANGED <<typeVars, fightVars, argVars, trainerVars>>

\* the kinds that implement DbUpdate
Updatable == {"PokemonType", "STATUS"}

\* DbUpdate::update_args: the text after SET; PokemonType's text starts with
\* a second SET and names no node, which is not a SET clause
update_args(e) ==
    IF e.kind = "STATUS"
    THEN [clause |-> TRUE,
          fields |-> << Field("status", Quoted(e.scalars[1])) >>]
    ELSE [clause |-> FALSE,
          fields |-> << Field("name", Quoted(sanitize(e.name))) >>]

\* the identifier as DbUpdate::update writes it into its query
update_identifier(database_identifier) == database_identifier

\* a SET that replaces the whole property map of the matching nodes
SetProps_replace(nodes, kind, token, args) ==
    LET hit == NodesWhere(nodes, kind, DB_IDENTIFIER_FIELD(kind), token)
        new == PropsOf(args.fields)
        Set(n) == [n EXCEPT !.props = new]
    IN  IF ~args.clause \/ ~CypherValue(token).ok \/ ~FieldsOk(args.fields)
        THEN [ok |-> FALSE, nodes |-> nodes]
        ELSE [ok |-> TRUE, nodes |-> (nodes \ hit) \cup { Set(n) : n \in hit }]

\* "MATCH (n:<kind>) WHERE n.<field> = <token> SET <update_args>": the
\* properties named are overwritten in every matching node
SetProps(nodes, kind, token, args) ==
    LET hit == NodesWhere(nodes, kind, DB_IDENTIFIER_FIELD(kind), token)
        new == PropsOf(args.fields)
        Set(n) == [n EXCEPT !.props =
                      [f \in DOMAIN n.props \cup DOMAIN new |->
                          IF f \in DOMAIN new THEN new[f] ELSE n.props[f]]]
    IN  IF ~args.clause \/ ~CypherValue(token).ok \/ ~FieldsOk(args.fields)
        THEN [ok |-> FALSE, nodes |-> nodes]
        ELSE [ok |-> TRUE, nodes |-> (nodes \ hit) \cup { Set(n) : n \in hit }]

\* DbUpdate::update of a value the caller holds
Update ==
    \E e \in { n \in NewEntities : n.kind \in Updatable }, ident \in Names :
        LET m == SetProps(db_nodes, e.kind, update_identifier(ident),
                          update_args(e))
        IN  /\ db_nodes' = m.nodes
            /\ entity' = e
            /\ Returns(Call("update", e.kind, ident, e.scalars, None, e.name),
                       m.ok)
            /\ reads' = 0
            /\ sync' = FALSE
            /\ linked' = FALSE
            /\ got_all' = << >>
            /\ UNCHANGED <<db_edges, db_next>>
            /\ UNCHANGED <<typeVars, fightVars, argVars, trainerVars>>

\* an empty store, or one that holds a trainer (put_self_only cannot create
\* one), and no entity in memory
InitStore ==
    /\ \/ db_nodes = {} /\ db_next = 1
       \/ /\ db_nodes = { Node(1, "Trainer", [name |-> StrVal(<<"x">>)]) }
          /\ db_next = 2
    /\ db_edges = {}
    /\ entity = NoEntity
    /\ last_call = NoCall
    /\ repeated = FALSE
    /\ call_result = None
    /\ linked = FALSE
    /\ got_all = << >>
    /\ reads = 0
    /\ sync = FALSE
    /\ response = None
    /\ lookup_error = None
    /\ requests = NoRequests
    /\ strong_against = Linked({})
    /\ weak_against = Linked({})
    /\ NoFight
    /\ NoTrainerFight

NextStore ==
    \/ PutSelfOnly
    \/ PutWithRelationships
    \/ GetFirst
    \/ GetAll

SpecStore == InitStore /\ [][NextStore]_vars

\* two types, as PokemonType::new_to_db leaves them
TypeNodes ==
    { Node(1, "PokemonType", [name |-> StrVal(<<"x">>)]),
      Node(2, "PokemonType", [name |-> StrVal(<<"y">>)]) }

\* a type, a pokemon of that type and a trainer, as new_to_db and a seeding
\* leave them
OwnerNodes ==
    { Node(1, "PokemonType", [name |-> StrVal(<<"x">>)]),
      Node(2, "Pokemon", [name |-> StrVal(<<"x">>),
                          hp |-> IntVal(<<"3", "5">>),
                          attack |-> IntVal(<<"5", "5">>),
                          defense |-> IntVal(<<"4", "0">>),
                          agility |-> IntVal(<<"9", "0">>)]),
      Node(3, "Trainer", [name |-> StrVal(<<"x">>)]) }

InitLink ==
    /\ \/ /\ db_nodes = TypeNodes
          /\ db_next = 3
          /\ db_edges = {}
       \/ /\ db_nodes = OwnerNodes
          /\ db_next = 4
          /\ db_edges = { Edge(2, "PrimaryType", 1) }
    /\ entity = NoEntity
    /\ last_call = NoCall
    /\ repeated = FALSE
    /\ call_result = None
    /\ linked = FALSE
    /\ got_all = << >>
    /\ reads = 0
    /\ sync = FALSE
    /\ response = None
    /\ lookup_error = None
    /\ requests = NoRequests
    /\ strong_against = Linked({})
    /\ weak_against = Linked({})
    /\ NoFight
    /\ NoTrainerFight

\* what a get_first of an endpoint comes to: the entity, or the error that
\* DbHandle::connect, get_db_node or from_db_node returned
Lookup(kind, name, up) ==
    IF ~up THEN { [ok |-> FALSE, error |-> "connect"] }
    ELSE IF get_db_node(db_nodes, kind, name) = {}
    THEN { [ok |-> FALSE, error |-> "No rows"] }
    ELSE { [ok |-> r.ok, error |-> IF r.ok THEN None ELSE "from_db_node"] :
             r \in get_first(db_nodes, db_edges, kind, name) }

\* the endpoint has answered: its message, and the lookup error it matched
Answers(call, message, error) ==
    /\ last_call' = call
    /\ repeated' = (call = last_call)
    /\ call_result' = IF error = None THEN "Ok" ELSE "Err"
    /\ response' = message
    /\ lookup_error' = error
    /\ requests' = requests
    /\ reads' = 0
    /\ linked' = FALSE
    /\ got_all' = << >>
    /\ UNCHANGED <<db_nodes, db_edges, db_next, entity, sync>>
    /\ UNCHANGED <<typeVars, fightVars, argVars, trainerVars>>

\* GET /simulate_fight/<contender_name>/<challenger_name>: both lookups, then
\* pokemon_fight::process_fight, whose answer is not told apart here; the
\* store may become unreachable before either lookup
SimulateFight ==
    \E contender_name \in Names, challenger_name \in Names, down_at \in 0..2 :
    \E a \in Lookup("Pokemon", contender_name, down_at # 1) :
    \E b \in Lookup("Pokemon", challenger_name, down_at # 2) :
        LET call == Call("simulate_fight", "Pokemon", contender_name, << >>,
                         None, challenger_name)
        IN  IF ~a.ok THEN Answers(call, "Contender not found", a.error)
            ELSE IF ~b.ok THEN Answers(call, "Challenger not found", b.error)
            ELSE Answers(call, "process_fight", None)

\* GET /simulate_trainer_fight/<challenger_name>/<s1>/<contender_name>/<s2>:
\* both lookups, the parse of the strategies, then
\* trainer_fight::process_fight
SimulateTrainerFight ==
    \E challenger_name \in Names, contender_name \in Names, down_at \in 0..2,
       parsed \in BOOLEAN :
    \E a \in Lookup("Trainer", challenger_name, down_at # 1) :
    \E b \in Lookup("Trainer", contender_name, down_at # 2) :
        LET call == Call("simulate_trainer_fight", "Trainer", challenger_name,
                         << >>, None, contender_name)
        IN  IF ~a.ok THEN Answers(call, "Challenger not found", a.error)
            ELSE IF ~b.ok THEN Answers(call, "Contender not found", b.error)
            ELSE IF ~parsed THEN Answers(call, "Invalid strategy", "parse")
            ELSE Answers(call, "process_fight", None)

\* the store of OwnerNodes after put_self_only of a second pokemon, which has
\* no type link
ApiNodes ==
    OwnerNodes \cup
    { Node(4, "Pokemon", [name |-> StrVal(<<"y">>),
                          hp |-> IntVal(<<"3", "9">>),
                          attack |-> IntVal(<<"5", "2">>),
                          defense |-> IntVal(<<"4", "3">>),
                          agility |-> IntVal(<<"8", "4">>)]) }

\* a store filled by new_to_db and put_self_only, or an empty one
InitApi ==
    /\ \/ /\ db_nodes = {}
          /\ db_next = 1
          /\ db_edges = {}
       \/ /\ db_nodes = OwnerNodes
          /\ db_next = 4
          /\ db_edges = { Edge(2, "PrimaryType", 1) }
       \/ /\ db_nodes = ApiNodes
          /\ db_next = 5
          /\ db_edges = { Edge(2, "PrimaryType", 1) }
    /\ entity = NoEntity
    /\ last_call = NoCall
    /\ repeated = FALSE
    /\ call_result = None
    /\ linked = FALSE
    /\ got_all = << >>
    /\ reads = 0
    /\ sync = FALSE
    /\ response = None
    /\ lookup_error = None
    /\ requests = NoRequests
    /\ strong_against = Linked({})
    /\ weak_against = Linked({})
    /\ NoFight
    /\ NoTrainerFight

NextApi ==
    \/ SimulateFight
    \/ SimulateTrainerFight

SpecApi == InitApi /\ [][NextApi]_vars

----------------------------------------------------------------------------
(* sanitize alone: any short string, sanitized and sanitized again *)

\* the characters sanitize tells apart, and one it leaves alone
SanitizeChars == {Quote, DoubleQuote, Backslash, "a"}

\* the strings of at most MaxLen of these characters
SanitizeInputs == UNION { [1..n -> SanitizeChars] : n \in 0..MaxLen }

InitSanitize ==
    /\ \E s \in SanitizeInputs :
          last_call = Call(None, None, << >>, << >>, None, s)
    /\ db_nodes = {}
    /\ db_edges = {}
    /\ db_next = 1
    /\ entity = NoEntity
    /\ repeated = FALSE
    /\ call_result = None
    /\ linked = FALSE
    /\ got_all = << >>
    /\ reads = 0
    /\ sync = FALSE
    /\ response = None
    /\ lookup_error = None
    /\ requests = NoRequests
    /\ strong_against = Linked({})
    /\ weak_against = Linked({})
    /\ NoFight
    /\ NoTrainerFight

\* database/mod.rs:81-89: sanitize is called with the string the last call
\* left; the call is recorded with its argument and the string it returns
Sanitize ==
    /\ Len(last_call.other) <= 2 * MaxLen
    /\ last_call' = Call("sanitize", None, last_call.other, << >>, None,
                         sanitize(last_call.other))
    /\ UNCHANGED <<db_nodes, db_edges, db_next, entity, repeated, call_result,
                   linked, got_all, reads, sync, response, lookup_error,
                   requests, typeVars, fightVars, argVars, trainerVars>>

NextSanitize == Sanitize

SpecSanitize == InitSanitize /\ [][NextSanitize]_vars

\* POST /pokemons, lines 29-45: the name loses its backslashes, and the
\* request is turned down if get_first of the name returns Ok
AddPokemonCheck ==
    \E c \in Clients, p \in { x \in NewEntities : x.kind = "Pokemon" } :
        LET pokemon == [p EXCEPT !.name = StripBackslashes(p.name)]
        IN  \E r \in get_first(db_nodes, db_edges, "Pokemon", pokemon.name) :
                /\ requests[c] = NoEntity
                /\ requests' = IF r.ok THEN requests
                               ELSE [requests EXCEPT ![c] = pokemon]
                /\ response' = IF r.ok THEN "Pokemon already exists" ELSE None
                /\ last_call' = Call("add_pokemon", "Pokemon", pokemon.name,
                                     << >>, None, << >>)
                /\ repeated' = FALSE
                /\ call_result' = IF r.ok THEN "Err" ELSE None
                /\ lookup_error' = None
                /\ reads' = r.reads
                /\ linked' = FALSE
                /\ got_all' = << >>
                /\ UNCHANGED <<db_nodes, db_edges, db_next, entity, sync>>
                /\ UNCHANGED <<typeVars, fightVars, argVars, trainerVars>>

\* POST /pokemons, lines 47-52: put_with_relationships of the pokemon that
\* passed the check, and the answer
AddPokemonPut ==
    \E c \in Clients :
        LET e == requests[c]
            m == MergeNode(db_nodes, db_next, e.kind, put_args(e))
            primary == e.rels["PrimaryType"][1]
            first == LinkEdges(m.nodes, db_edges, e, primary, "PrimaryType")
            second == IF e.rels["SecondaryType"] = << >> THEN first
                      ELSE LinkEdges(m.nodes, first, e,
                                     e.rels["SecondaryType"][1], "SecondaryType")
        IN  /\ e # NoEntity
            /\ Cardinality({ n \in m.nodes : n.kind = "Pokemon" }) <= MaxNodes
            /\ db_nodes' = m.nodes
            /\ db_next' = m.next
            /\ db_edges' = IF m.ok THEN second ELSE db_edges
            /\ requests' = [requests EXCEPT ![c] = NoEntity]
            /\ response' = IF m.ok THEN "Ok" ELSE "Error"
            /\ last_call' = Call("add_pokemon", "Pokemon", e.name, << >>,
                                 None, << >>)
            /\ repeated' = FALSE
            /\ call_result' = IF m.ok THEN "Ok" ELSE "Err"
            /\ lookup_error' = None
            /\ reads' = 0
            /\ linked' = FALSE
            /\ got_all' = << >>
            /\ UNCHANGED <<entity, sync>>
            /\ UNCHANGED <<typeVars, fightVars, argVars, trainerVars>>

\* an empty store or one that holds a type, and no request under way
InitAdd ==
    /\ \/ /\ db_nodes = {}
          /\ db_next = 1
       \/ /\ db_nodes = { Node(1, "PokemonType", [name |-> StrVal(<<"x">>)]) }
          /\ db_next = 2
    /\ db_edges = {}
    /\ entity = NoEntity
    /\ last_call = NoCall
    /\ repeated = FALSE
    /\ call_result = None
    /\ linked = FALSE
    /\ got_all = << >>
    /\ reads = 0
    /\ sync = FALSE
    /\ response = None
    /\ lookup_error = None
    /\ requests = NoRequests
    /\ strong_against = Linked({})
    /\ weak_against = Linked({})
    /\ NoFight
    /\ NoTrainerFight

NextAdd == AddPokemonCheck \/ AddPokemonPut

SpecAdd == InitAdd /\ [][NextAdd]_vars

\* an empty store, or one filled by new_to_db, and no entity in memory
InitEdit ==
    /\ \/ /\ db_nodes = {}
          /\ db_next = 1
          /\ db_edges = {}
       \/ /\ db_nodes = OwnerNodes
          /\ db_next = 4
          /\ db_edges = { Edge(2, "PrimaryType", 1) }
    /\ entity = NoEntity
    /\ last_call = NoCall
    /\ repeated = FALSE
    /\ call_result = None
    /\ linked = FALSE
    /\ got_all = << >>
    /\ reads = 0
    /\ sync = FALSE
    /\ response = None
    /\ lookup_error = None
    /\ requests = NoRequests
    /\ strong_against = Linked({})
    /\ weak_against = Linked({})
    /\ NoFight
    /\ NoTrainerFight

NextEdit ==
    \/ PutSelfOnly
    \/ GetFirst
    \/ Delete
    \/ Update

SpecEdit == InitEdit /\ [][NextEdit]_vars

NextLink ==
    \/ GetFirst
    \/ LinkTo
    \/ UnlinkFrom
    \/ IsLinkedBy
    \/ SetSecondaryType
    \/ Resolve
    \/ ResolveConcrete

SpecLink == InitLink /\ [][NextLink]_vars

----------------------------------------------------------------------------
(* Properties of the type damage multiplier *)

\* a multiplier has been computed for the contender attacking the challenger
MultComputed == pc = "types_done"

\* 0.1 and 2.5 in units of 2^-27; 0.1 rounded up, which is the f32 literal 0.1
F32Min == 13421773
F32Max == 335544320

\* C5: the type damage multiplier computed in a round lies in [0.1, 2.5], for
\* every assignment of types and every strong/weak relation, a type that is
\* both strong and weak against another included
C5_MultInRange ==
    MultComputed =>
        /\ F32Min <= F32DamageMult(checks)
        /\ F32DamageMult(checks) <= F32Max

\* the documented rules a-h, each applied on its own
RuleStrong(self, other) == IF is_strong_against(self, other) THEN StrongBonus ELSE 0

RuleWeak(self, other) == IF is_weak_against(self, other) THEN WeakPenalty ELSE 0

DocumentedMult(attacker, defender) ==
    MultOne
    + RuleStrong(attacker.ptype, defender.ptype)
    - RuleWeak(attacker.ptype, defender.ptype)
    + (IF defender.stype = None THEN 0
       ELSE RuleStrong(attacker.ptype, defender.stype)
            - RuleWeak(attacker.ptype, defender.stype))
    + (IF attacker.stype = None THEN 0
       ELSE (IF is_weak_against(defender.ptype, attacker.stype)
             THEN StrongBonus ELSE 0)
            - (IF is_strong_against(defender.ptype, attacker.stype)
               THEN WeakPenalty ELSE 0))
    + (IF attacker.stype = None \/ defender.stype = None THEN 0
       ELSE (IF is_weak_against(defender.stype, attacker.stype)
             THEN StrongBonus ELSE 0)
            - (IF is_strong_against(defender.stype, attacker.stype)
               THEN WeakPenalty ELSE 0))

\* C6: the multiplier equals 1 plus the sum of the documented rules a-h, each
\* applied independently of the others
C6_DocumentedRules ==
    MultComputed => damage_mult = DocumentedMult(contender, challenger)

\* the adjustment the sentence of the spec gives for a check on (first, second)
NamedOrderDelta(first, second) ==
    IF first = None \/ second = None THEN 0
    ELSE RuleStrong(first, second) - RuleWeak(first, second)

AttackerDelta(first, second, delta) ==
    IF second = None THEN delta = 0
    ELSE /\ is_strong_against(first, second) => delta = StrongBonus
         /\ (~is_strong_against(first, second) /\ is_weak_against(first, second))
                => delta = 0 - WeakPenalty
         /\ (~is_strong_against(first, second) /\ ~is_weak_against(first, second))
                => delta = 0

\* a type of the defender against the attacker's secondary type
DefenderDelta(first, second, delta) ==
    IF first = None \/ second = None THEN delta = 0
    ELSE /\ is_strong_against(first, second) => delta = 0 - WeakPenalty
         /\ (~is_strong_against(first, second) /\ is_weak_against(first, second))
                => delta = StrongBonus
         /\ (~is_strong_against(first, second) /\ ~is_weak_against(first, second))
                => delta = 0

----------------------------------------------------------------------------
(* Properties of one encounter *)

\* the last Hit of a log that holds one
LastHit ==
    IF log[Len(log)].event_name = "Hit" THEN log[Len(log)] ELSE log[Len(log) - 2]

\* C1: between two distinct pokemon the first Hit is dealt by the pokemon of
\* strictly higher agility, and by the challenger (second argument) on a tie
C1_FirstAttacker ==
    (Len(log) >= 1 /\ contender.name # challenger.name) =>
        log[1].attacker = IF contender.agility > challenger.agility
                          THEN contender.name
                          ELSE challenger.name

\* C3: when an encounter that ran at least one round has returned, its log
\* ends with the final Hit, Fainted naming that Hit's defender, and
\* PokemonWinner naming that Hit's attacker with the attacker's remaining HP
C3_ReturnsAfterFaint ==
    (pc = "returned" /\ rounds >= 1) =>
        /\ Len(log) >= 3
        /\ log[Len(log) - 2].event_name = "Hit"
        /\ log[Len(log) - 1] = Fainted(log[Len(log) - 2].defender)
        /\ log[Len(log)] = PokemonWinner(log[Len(log) - 2].attacker, round.atk_hp)

\* C4: the defender's HP after a Hit, as reported and as carried into the
\* next round, is at most its HP before the Hit
C4_MonotonicHp ==
    rounds >= 1 => LastHit.hp_left <= round.def_hp_before

----------------------------------------------------------------------------
(* Properties of the trainer fight *)

\* process_fight has returned Ok(log)
ReturnedOk == tf_pc = "done" /\ tf_result = "Ok"

\* C2: a trainer fight that returns a log ends it with a Winner event naming
\* the trainer whose roster is not empty and listing that roster
C2_EndsWithWinner ==
    ReturnedOk =>
        /\ Len(tf_log) >= 1
        /\ \/ /\ challenger_team # << >>
              /\ tf_log[Len(tf_log)] =
                     Winner(challenger_trainer.name, TeamNames(challenger_team))
           \/ /\ contender_team # << >>
              /\ tf_log[Len(tf_log)] =
                     Winner(contender_trainer.name, TeamNames(contender_team))

\* an encounter has returned a log with a Fainted event and is being read
FaintReturned ==
    /\ tf_pc = "fight"
    /\ pc = "returned"
    /\ \E i \in 1..Len(log) : log[i].event_name = "Fainted"

\* the roster lost exactly this one pokemon
LostOne(before, after, pokemon) ==
    /\ Len(after) = Len(before) - 1
    /\ after = Retain(before, pokemon.name)

\* C8: after an encounter with a Fainted event the roster of the trainer whose
\* active pokemon fainted (the defender of the last round) is shorter by
\* exactly that pokemon and the other roster is unchanged; rosters never grow
C8_TeamShrink ==
    [][ /\ FaintReturned =>
             IF round.atk_side = "contender"
             THEN /\ LostOne(contender_team, contender_team', contender_pokemon)
                  /\ challenger_team' = challenger_team
             ELSE /\ LostOne(challenger_team, challenger_team', challenger_pokemon)
                  /\ contender_team' = contender_team
        /\ tf_pc \in {"loop", "fight"} =>
             /\ Len(challenger_team') <= Len(challenger_team)
             /\ Len(contender_team') <= Len(contender_team)
      ]_vars

\* the sizes of the two teams the fight was called with
TeamSizes == Len(challenger_trainer.team) + Len(contender_trainer.team)

\* C9: the loop runs at most |challenger team| + |contender team| encounters:
\* every encounter that is read back into the loop has taken one pokemon off
\* a roster, and the loop ends when a roster is empty
C9_EncounterBound ==
    /\ encounters <= TeamSizes
    /\ tf_pc = "loop" =>
           encounters + Len(challenger_team) + Len(contender_team) <= TeamSizes

\* a fight of full length has returned: every pokemon but one has fainted
C9_Witness ==
    /\ ReturnedOk
    /\ TeamSizes >= 3
    /\ encounters = TeamSizes - 1

\* an encounter after the first is being entered
NextEncounterEntered ==
    /\ tf_pc = "fight"
    /\ pc = "loop"
    /\ rounds = 0
    /\ encounters >= 2

\* C10: the pokemon that won the previous encounter, the one that was not
\* replaced, enters the next encounter with the HP its PokemonWinner event
\* reported
C10_SurvivorHp ==
    NextEncounterEntered =>
        LET won == tf_log[Len(tf_log) - 1]
        IN  /\ won.event_name = "PokemonWinner"
            /\ IF chooser = "contender"
               THEN /\ challenger_pokemon.name = won.pokemon
                    /\ contender_hp = won.hp_left
               ELSE /\ contender_pokemon.name = won.pokemon
                    /\ challenger_hp = won.hp_left

----------------------------------------------------------------------------
(* Properties of the opening of a trainer fight and of StrongestType *)

\* the log opens with the two choices the code makes: event i names this
\* trainer and a pokemon this strategy returns for this team and enemy
OpensWith(i, trainer, strat, enemy) ==
    \E p \in choose_pokemon(strat, trainer.team, enemy) :
        tf_log[i] = ChoosePokemon(trainer.name, p.name)

\* C11: a trainer fight log begins with a ChoosePokemon event for the
\* contender, chosen by the contender's strategy with no enemy available,
\* immediately followed by a ChoosePokemon event for the challenger, chosen by
\* the challenger's strategy with the contender's chosen pokemon as the enemy;
\* no Hit event precedes these two events
C11_OpeningChoices ==
    /\ Len(tf_log) >= 1 =>
           OpensWith(1, contender_trainer, contender_strat, NoPokemon)
    /\ Len(tf_log) >= 2 =>
           \E cont \in choose_pokemon(contender_strat, contender_trainer.team,
                                      NoPokemon) :
               /\ tf_log[1] = ChoosePokemon(contender_trainer.name, cont.name)
               /\ OpensWith(2, challenger_trainer, challenger_strat, cont)
    /\ ReturnedOk => Len(tf_log) >= 2

\* a fight has returned a log in which the challenger, choosing by type among
\* two pokemon, took another one than it would have taken without an enemy
C11_Witness ==
    /\ ReturnedOk
    /\ challenger_strat = "StrongestType"
    /\ Len(challenger_trainer.team) = 2
    /\ Len(tf_log) >= 3
    /\ tf_log[2].event_name = "ChoosePokemon"
    /\ tf_log[2].pokemon #
           StrongestType(challenger_trainer.team, NoPokemon).name
    /\ tf_log[3].event_name = "Hit"

\* the types of a pokemon
TypesOf(pokemon) == {pokemon.ptype, pokemon.stype} \ {None}

\* the pokemon has a type that is strong against one of the enemy's types
Advantaged(pokemon, enemy) ==
    \E t \in TypesOf(pokemon) : \E u \in TypesOf(enemy) : is_strong_against(t, u)

\* the pokemon has the largest attack+defense sum of the team
MaxSum(pokemon, team) ==
    /\ \E i \in 1..Len(team) : team[i] = pokemon
    /\ \A i \in 1..Len(team) :
           team[i].attack + team[i].defense <= pokemon.attack + pokemon.defense

\* what StrongestType is documented to return for a non-empty team
StrongestTypeChoice(chosen, team, enemy) ==
    IF enemy # NoPokemon /\ \E i \in 1..Len(team) : Advantaged(team[i], enemy)
    THEN (\E i \in 1..Len(team) : team[i] = chosen) /\ Advantaged(chosen, enemy)
    ELSE MaxSum(chosen, team)

\* both trainers have made their first choice
Opened == tf_pc = "loop" /\ encounters = 0

\* C12: StrongestType over a non-empty team returns an advantaged member if
\* the enemy is known and some member has a type that is strong against one
\* of the enemy's types, whatever the order of the team; otherwise (nobody
\* advantaged, or the enemy unknown) a member with the maximum attack+defense
C12_StrongestType ==
    Opened =>
        /\ contender_strat = "StrongestType" =>
               StrongestTypeChoice(contender_pokemon, contender_trainer.team,
                                   NoPokemon)
        /\ challenger_strat = "StrongestType" =>
               StrongestTypeChoice(challenger_pokemon, challenger_trainer.team,
                                   contender_pokemon)

----------------------------------------------------------------------------
(* Properties of the repository: put, get_first, get_all *)

\* the nodes of the store that hold exactly the content put_args gives e
NodesOf(e) ==
    { n \in db_nodes : n.kind = e.kind /\ n.props = PropsOf(put_args(e).fields) }

\* put_self_only has just been applied a second time to the same content
PutTwice == repeated /\ last_call.op = "put_self_only"

\* C13: put_self_only applied twice with identical entity content leaves
\* exactly one node with that content in the store
C13_IdempotentPut == PutTwice => Cardinality(NodesOf(entity)) = 1

\* the nodes put for an entity of the kind with the identifier, a Pokemon
\* with its primary type link
StoredNodes(kind, ident) ==
    { n \in db_nodes :
        /\ n.kind = kind
        /\ n.props[DB_IDENTIFIER_FIELD(kind)].v = ident
        /\ kind = "Pokemon" =>
               \E d \in db_edges : d.from = n.id /\ d.label = "PrimaryType" }

\* the scalar fields put_args stored in the node, the identifier aside
ScalarsOf(n) ==
    IF n.kind = "Pokemon"
    THEN << n.props["hp"].v, n.props["attack"].v, n.props["defense"].v,
            n.props["agility"].v >>
    ELSE IF n.kind = "STATUS" THEN << n.props["status"].v >>
    ELSE << >>

\* C14: get_first with the identifier of an entity that has been stored
\* succeeds and returns an entity whose scalar fields equal the stored ones,
\* for every identifier value, names made only of digits included
C14_RoundTrip ==
    (last_call.op = "get_first"
        /\ StoredNodes(last_call.kind, last_call.ident) # {}) =>
        /\ call_result = "Ok"
        /\ entity.kind = last_call.kind
        /\ entity.name = last_call.ident
        /\ \E n \in StoredNodes(last_call.kind, last_call.ident) :
               entity.scalars = ScalarsOf(n)

\* C15: after any sequence of put operations the store holds at most one
\* node per (kind, identifier value), also when the other scalar properties
\* of a put entity differ from those of the existing node
C15_MergeByIdentifier ==
    \A n, m \in db_nodes :
        (n.kind = m.kind
            /\ n.props[DB_IDENTIFIER_FIELD(n.kind)]
                   = m.props[DB_IDENTIFIER_FIELD(m.kind)]) => n = m

----------------------------------------------------------------------------
(* Properties of the linker: link_to, unlink_from, is_linked_by *)

\* the nodes of the kind that carry the name
Named(kind, name) ==
    { n \in db_nodes : n.kind = kind
                       /\ n.props[DB_IDENTIFIER_FIELD(kind)] = StrVal(name) }

\* the edges with the label from a node of the entity to a node of other
EdgesBetween(edges, kind, name, rel, other) ==
    { d \in edges : /\ d.label = rel
                    /\ \E a \in Named(kind, name) : a.id = d.from
                    /\ \E b \in Named(TargetKind(kind), other) : b.id = d.to }

\* link_to called twice with the same (self, other, relationship), both nodes
\* in the store, leaves exactly one such edge
LinkedTwice ==
    (repeated /\ last_call.op = "link_to"
        /\ Named(last_call.kind, last_call.ident) # {}
        /\ Named(TargetKind(last_call.kind), last_call.other) # {}) =>
        Cardinality(EdgesBetween(db_edges, last_call.kind, last_call.ident,
                                 last_call.rel, last_call.other)) = 1

\* unlink_from on a pair without such an edge returns Ok and leaves the
\* store unchanged
UnlinkAbsent ==
    (last_call'.op = "unlink_from" /\ entity # NoEntity
        /\ last_call'.kind = entity.kind /\ last_call'.ident = entity.name
        /\ EdgesBetween(db_edges, entity.kind, entity.name, last_call'.rel,
                        last_call'.other) = {}) =>
        call_result' = "Ok" /\ db_edges' = db_edges /\ db_nodes' = db_nodes

\* C16: link/unlink idempotence, for every entity kind and relationship
\* type: link_to applied twice leaves exactly one edge, and unlink_from of an
\* absent edge returns Ok and leaves the store unchanged
C16_LinkIdempotence == []LinkedTwice /\ [][UnlinkAbsent]_vars

\* the identifiers of the nodes the store links the entity to by the label
StoreTargets(e, rel) ==
    { b.props[DB_IDENTIFIER_FIELD(b.kind)].v :
        b \in { n \in db_nodes :
                  \E d \in db_edges, a \in Named(e.kind, e.name) :
                      d.from = a.id /\ d.label = rel /\ d.to = n.id } }

\* the references of the field are distinct and name exactly the targets
Denotes(refs, targets) ==
    /\ { refs[i] : i \in 1..Len(refs) } = targets
    /\ \A i, j \in 1..Len(refs) : refs[i] = refs[j] => i = j

\* C17: after a load and any sequence of link_to and unlink_from calls that
\* each returned Ok, the entity's in-memory relationship fields denote
\* exactly the edges the store holds from its node: nothing missing, extra
\* or duplicated, whether the targets exist or not
C17_InMemoryMatchesStore ==
    sync => \A rel \in Relationships(entity.kind) :
                Denotes(entity.rels[rel], StoreTargets(entity, rel))

\* a step that is unlink_from(other, PrimaryType) on a loaded Pokemon
UnlinksPrimary ==
    /\ entity.kind = "Pokemon"
    /\ last_call'.op = "unlink_from"
    /\ last_call'.rel = "PrimaryType"

\* C18: unlink_from on a Pokemon with relationship PrimaryType writes to the
\* store first and then fails in the side effect: the call returns an error,
\* the PrimaryType edge to other is removed from the store and is not put
\* back, and the in-memory primary type still names the old type
C18_NoRollback ==
    [][UnlinksPrimary =>
          /\ call_result' = "Err"
          /\ db_edges' = db_edges \ EdgesBetween(db_edges, "Pokemon",
                                                 entity.name, "PrimaryType",
                                                 last_call'.other)
          /\ entity' = entity]_vars

\* C18: a Pokemon whose primary type is still named in memory after
\* unlink_from returned an error and the store lost the edge to it
C18_Witness ==
    /\ last_call.op = "unlink_from"
    /\ last_call.rel = "PrimaryType"
    /\ call_result = "Err"
    /\ entity.kind = "Pokemon"
    /\ entity.rels["PrimaryType"] = << last_call.other >>
    /\ Named("PokemonType", last_call.other) # {}
    /\ StoreTargets(entity, "PrimaryType") = {}

\* C19: is_linked_by(self, other, relationship) returns true if and only
\* if the store holds an edge with that label from self's node to other's
\* node, and false when both nodes exist without such an edge
C19_IsLinkedBy ==
    (last_call.op = "is_linked_by" /\ call_result = "Ok") =>
        (linked <=> EdgesBetween(db_edges, last_call.kind, last_call.ident,
                                 last_call.rel, last_call.other) # {})

\* the store reads of loading one type: the node, then one traversal per
\* relationship type
TypeLoadReads == 1 + Cardinality(Relationships("PokemonType"))

\* get_first on a PokemonType has just returned
TypeLoaded == last_call.op = "get_first" /\ last_call.kind = "PokemonType"

\* C20: get_first on a PokemonType never recurses through relationships: it
\* ends after at most one node read plus one traversal per relationship type
\* whatever the strong-against / weak-against graph, and each linked type
\* comes back once, as a reference that holds the target's identifier
C20_LoadIsBounded ==
    TypeLoaded =>
        IF call_result = "Ok"
        THEN /\ reads = TypeLoadReads
             /\ \A rel \in Relationships("PokemonType") :
                    Denotes(entity.rels[rel], StoreTargets(entity, rel))
        ELSE reads <= TypeLoadReads

\* C20: a type loaded from a graph in which it is linked to itself and lies
\* on a cycle through another type
C20_Witness ==
    /\ TypeLoaded
    /\ call_result = "Ok"
    /\ \E a \in Named("PokemonType", entity.name), b \in db_nodes :
           /\ b.kind = "PokemonType" /\ b # a
           /\ \E r1, r2, r3 \in Relationships("PokemonType") :
                  /\ Edge(a.id, r1, b.id) \in db_edges
                  /\ Edge(b.id, r2, a.id) \in db_edges
                  /\ Edge(a.id, r3, a.id) \in db_edges

----------------------------------------------------------------------------
(* Properties of delete, update and of the identifiers written in queries *)

\* the identifier as the query of the recorded repository call holds it
QueryIdentifier(call) ==
    IF call.op = "delete" THEN delete_identifier(call.ident)
    ELSE IF call.op = "update" THEN update_identifier(call.ident)
    ELSE ident_db(call.ident)

\* sanitized, and in single quotes unless it looks like a number
Emitted(ident) ==
    IF IsU64(ident) THEN sanitize(ident) ELSE Quoted(sanitize(ident))

\* C22: in the query text of every repository operation that takes an
\* identifier (get_first, delete, update) the identifier value has passed
\* through sanitize and is unquoted if and only if it looks like a number,
\* otherwise enclosed in single quotes
C22_IdentifierText ==
    last_call.op \in {"get_first", "delete", "update"} =>
        QueryIdentifier(last_call) = Emitted(last_call.ident)

\* delete with the identifier of a put entity has just returned Ok
Deleted == last_call.op = "delete" /\ call_result = "Ok"

\* C23: after delete with an identifier returned Ok, no node of that kind
\* with that identifier remains, whether the identifier is a numeric id or
\* a string name
C23_DeleteRemoves ==
    Deleted =>
        ~\E n \in db_nodes :
            /\ n.kind = last_call.kind
            /\ n.props[DB_IDENTIFIER_FIELD(n.kind)].v = last_call.ident

\* the nodes of the kind whose identifier reads as the text
Identified(nodes, kind, ident) ==
    { n \in nodes : n.kind = kind
                    /\ n.props[DB_IDENTIFIER_FIELD(kind)].v = ident }

\* a step that is an update, returning Ok, of a node the store holds
UpdatesStored ==
    /\ last_call'.op = "update"
    /\ call_result' = "Ok"
    /\ Identified(db_nodes, last_call'.kind, last_call'.ident) # {}

\* the node keeps its id, its kind and every property the update does not
\* name, and holds the scalar fields of the updating value
Overwritten(old, new, scalars) ==
    /\ new.id = old.id
    /\ new.kind = old.kind
    /\ DOMAIN new.props = DOMAIN old.props
    /\ new.props[DB_IDENTIFIER_FIELD(old.kind)]
           = old.props[DB_IDENTIFIER_FIELD(old.kind)]
    /\ ScalarsOf(new) = scalars

\* C24: after update(id, e') returns Ok on a stored node, get_first(id)
\* returns the scalar fields of e'; the properties update_args does not
\* name, the relationships and every other node are unchanged
C24_UpdateInPlace ==
    [][UpdatesStored =>
          LET kind == last_call'.kind
              ident == last_call'.ident
              old == Identified(db_nodes, kind, ident)
          IN  /\ \A r \in get_first(db_nodes', db_edges', kind, ident) :
                     r.ok /\ r.entity.scalars = last_call'.scalars
              /\ \A n \in old : \E m \in db_nodes' :
                     Overwritten(n, m, last_call'.scalars)
              /\ db_nodes \ old \subseteq db_nodes'
              /\ Cardinality(db_nodes') <= Cardinality(db_nodes)
              /\ db_edges' = db_edges]_vars

\* C24: an update has returned Ok and the stored node holds the new status
\* under its old identifier, beside a node of another kind
C24_Witness ==
    /\ last_call.op = "update"
    /\ call_result = "Ok"
    /\ \E n \in Identified(db_nodes, last_call.kind, last_call.ident) :
           ScalarsOf(n) = << <<"n", "o">> >>
    /\ \A n \in Identified(db_nodes, last_call.kind, last_call.ident) :
           ScalarsOf(n) = last_call.scalars
    /\ \E n \in db_nodes : n.kind # last_call.kind

----------------------------------------------------------------------------
(* Properties of the fight endpoints *)

\* the name the endpoint looked up when it answered "... not found"
Missing ==
    IF response = "Contender not found"
    THEN IF last_call.op = "simulate_fight" THEN last_call.ident
         ELSE last_call.other
    ELSE IF last_call.op = "simulate_fight" THEN last_call.other
    ELSE last_call.ident

\* C21: simulate_fight and simulate_trainer_fight answer "... not found"
\* only when no node with the requested name exists; a connectivity failure
\* or a node that cannot be reconstructed is reported as another error
C21_NotFoundIsDistinct ==
    response \in {"Contender not found", "Challenger not found"} =>
        /\ lookup_error = "No rows"
        /\ Named(last_call.kind, Missing) = {}

----------------------------------------------------------------------------
(* Properties of the type links of a Pokemon *)

\* the edges with the label that leave the node
Outgoing(edges, n, label) == { d \in edges : d.from = n.id /\ d.label = label }

\* every Pokemon node has exactly one PrimaryType edge and at most one
\* SecondaryType edge
TypeLinksOk(nodes, edges) ==
    \A n \in nodes :
        n.kind = "Pokemon" =>
            /\ Cardinality(Outgoing(edges, n, "PrimaryType")) = 1
            /\ Cardinality(Outgoing(edges, n, "SecondaryType")) <= 1

\* C25: a put_with_relationships (the body of Pokemon::new_to_db) that
\* returns Ok on a store whose Pokemon nodes each have exactly one
\* PrimaryType edge and at most one SecondaryType edge leaves such a store,
\* whether the types referred to exist or not
C25_TypeLinks ==
    [][(last_call'.op = "put_with_relationships" /\ call_result' = "Ok"
           /\ TypeLinksOk(db_nodes, db_edges)) =>
       TypeLinksOk(db_nodes', db_edges')]_vars

----------------------------------------------------------------------------
(* Properties of references *)

\* the step is one get_first of the identifier against the kind
OneGetFirst(kind, ident) ==
    \E r \in get_first(db_nodes, db_edges, kind, ident) :
        /\ call_result' = IF r.ok THEN "Ok" ELSE "Err"
        /\ reads' = r.reads
        /\ got_all' = IF r.ok THEN << r.entity >> ELSE << >>

\* the step leaves the store and the holder as they were
ResolveFrame ==
    /\ db_nodes' = db_nodes
    /\ db_edges' = db_edges
    /\ entity' = entity

\* C26: resolving a reference an entity holds is exactly one get_first of
\* the reference's identifier against the referenced kind, and changes
\* neither the store nor the holder nor the reference in it; resolving a
\* concrete value returns that value with no store read
C26_ResolveReadsOnce ==
    [][/\ last_call'.op = "resolve" =>
              /\ \E rel \in Relationships(entity.kind) :
                 \E i \in 1..Len(entity.rels[rel]) :
                     /\ last_call'.ident = entity.rels[rel][i]
                     /\ last_call'.rel = rel
              /\ last_call'.kind = TargetKind(entity.kind)
              /\ OneGetFirst(last_call'.kind, last_call'.ident)
              /\ ResolveFrame
       /\ last_call'.op = "resolve_concrete" =>
              /\ call_result' = "Ok"
              /\ got_all' = << entity >>
              /\ reads' = 0
              /\ ResolveFrame]_vars

\* C26: a Pokemon's reference to its stored primary type has been resolved
\* to that type, with the reads of one get_first, beside a second reference
\* the Pokemon holds
C26_Witness ==
    /\ last_call.op = "resolve"
    /\ last_call.rel = "PrimaryType"
    /\ call_result = "Ok"
    /\ entity.kind = "Pokemon"
    /\ Len(entity.rels["SecondaryType"]) = 1
    /\ Len(got_all) = 1
    /\ got_all[1].kind = "PokemonType"
    /\ got_all[1].name = entity.rels["PrimaryType"][1]
    /\ reads > 1

----------------------------------------------------------------------------
(* Properties of the HP a trainer's pokemon enters an encounter with *)

\* C27: in the first encounter of a pokemon that was chosen as a
\* replacement after a faint, the HP its trainer's side enters with is the
\* pokemon's own hp stat, whatever HP the fainted pokemon had
C27_ReplacementFullHp ==
    tf_pc = "fight" =>
        /\ chooser = "contender" => tf_contender_hp = contender_pokemon.hp
        /\ chooser = "challenger" => tf_challenger_hp = challenger_pokemon.hp

----------------------------------------------------------------------------
(* Termination of an encounter *)

\* the attack of one pokemon on the other lowers the HP the defender is
\* left with, for the drawn multiplier
Lowers(attacker, defender, hp, rand_mult) ==
    RoundU32(hp * HpDen - Damage(attacker, defender,
                                 DamageMult(attacker, defender), rand_mult)) < hp

\* some round of the encounter can lower the HP of a side
CanEnd ==
    \E rand_mult \in RandTenths :
        \/ Lowers(contender, challenger, challenger_hp, rand_mult)
        \/ Lowers(challenger, contender, contender_hp, rand_mult)

\* C28: an encounter reaches a state in which the HP of a side is 0, attack 0
\* and defense 250 included, whatever multipliers are drawn; of an encounter
\* longer than the rounds explored it is required that a round can still
\* lower the HP of a side
C28_Terminates ==
    <>(~Fighting \/ (rounds = MaxRounds /\ CanEnd))

----------------------------------------------------------------------------
(* Errors during the selection of a pokemon *)

\* a resolve failed in the opening selection of the challenger: the strategy
\* is StrongestType, the contender has chosen a pokemon, and a type of the
\* first pokemon of the challenger's team does not resolve
OpeningResolveFailed ==
    /\ challenger_strat = "StrongestType"
    /\ contender_trainer.team # << >>
    /\ challenger_trainer.team # << >>
    /\ \E i \in 1..Len(TypeRefs(challenger_trainer.team[1])) :
           ~Resolves(TypeRefs(challenger_trainer.team[1])[i])

\* C29: a trainer fight in whose StrongestType selection the resolve of a
\* type failed does not return Ok: the failure is returned as an error
C29_NoSwallowedError ==
    (tf_pc = "done" /\ OpeningResolveFailed) => tf_result # "Ok"

----------------------------------------------------------------------------
(* The store reads of an encounter *)

\* every type reference of the two pokemon has been resolved, once and in
\* the order of the code
AllResolved ==
    /\ resolved = TypeRefs(contender) \o TypeRefs(challenger)
    /\ \A i \in 1..Len(resolved) : Resolves(resolved[i])

\* the resolves stopped at the first one that failed
StoppedAtFailure ==
    /\ resolved # << >>
    /\ ~Resolves(resolved[Len(resolved)])
    /\ \A i \in 1..(Len(resolved) - 1) : Resolves(resolved[i])

\* C30: process_fight_with_hp resolves the primary and secondary types of
\* both pokemon before the first event of its log; when one of the resolves
\* fails it returns the error with an empty log; and no iteration of the
\* round loop, nor the return, reads the store
C30_ReadsBeforeEvents ==
    /\ [](/\ (pc \in {"loop", "returned"} \/ log # << >>) => AllResolved
          /\ pc = "failed" => (log = << >> /\ StoppedAtFailure))
    /\ [][pc = "loop" => resolved' = resolved]_vars

\* C30: two rounds of an encounter have run, after the three type references
\* of a pokemon with two types and one with a single type were resolved
C30_Witness ==
    /\ pc = "loop"
    /\ rounds >= 2
    /\ Len(log) >= 2
    /\ Len(resolved) = 3
    /\ AllResolved

----------------------------------------------------------------------------
(* The order of the attacks of an encounter *)

\* in the log, the attacker of a Hit is the defender of the Hit that follows
LogAlternates ==
    \A i \in 1..(Len(log) - 1) :
        (log[i].event_name = "Hit" /\ log[i + 1].event_name = "Hit") =>
            /\ log[i + 1].attacker = log[i].defender
            /\ log[i + 1].defender = log[i].attacker

\* a round after the first: the attacker is the defender of the round
\* before and attacks with the HP that round left it, and the defender is
\* the attacker of the round before with the HP it had
SwapsRoles ==
    (pc = "loop" /\ rounds >= 1 /\ rounds' = rounds + 1) =>
        /\ round'.attacker = round.defender
        /\ round'.defender = round.attacker
        /\ round'.atk_hp = RoundU32(round.def_hp)
        /\ round'.def_hp_before = round.atk_hp

\* C31: the roles swap each round: in the log of an encounter the side that
\* attacks in one Hit defends in the next, with the HP carried over, also
\* when both arguments are the same pokemon
C31_RolesSwap == []LogAlternates /\ [][SwapsRoles]_vars

\* C31: three rounds of an encounter of a pokemon with itself, the two sides
\* holding different HP
C31_Witness ==
    /\ PokemonEq(contender, challenger)
    /\ rounds >= 3
    /\ Len(log) >= 3
    /\ round.atk_hp # round.def_hp_before
    /\ round.damage > 0

----------------------------------------------------------------------------
(* The choice of a strategy is a member of the team *)

\* the pokemon of a team
Members(team) == { team[i] : i \in 1..Len(team) }

\* every strategy returns a member of the non-empty team, whoever the enemy
ChoosesMember(team, enemy) ==
    team # << >> =>
        \A strat \in Strategies :
            /\ choose_pokemon(strat, team, enemy) # {}
            /\ choose_pokemon(strat, team, enemy) \subseteq Members(team)

\* C32: for every strategy, every non-empty team and every enemy or none,
\* choose_pokemon returns a member of the team; the fight returns 'strategy
\* produced no valid pokemon' only for a trainer whose team was empty
C32_ChoosesMember ==
    /\ \A team \in {challenger_team, contender_team, challenger_trainer.team,
                     contender_trainer.team} :
       \A enemy \in {NoPokemon, challenger_pokemon, contender_pokemon} :
           ChoosesMember(team, enemy)
    /\ tf_result = "Contender's strategy produced no valid pokemon" =>
           contender_trainer.team = << >>
    /\ tf_result = "Challenger's strategy produced no valid pokemon" =>
           challenger_trainer.team = << >>

\* C32: a replacement was chosen by StrongestType from a roster in which
\* every pokemon is weak against the enemy, and the fight goes on
C32_Witness ==
    /\ tf_pc = "loop"
    /\ chooser = "contender"
    /\ contender_strat = "StrongestType"
    /\ contender_team # << >>
    /\ \A i \in 1..Len(contender_team) :
           ~Taken(contender_team[i], challenger_pokemon)
    /\ contender_pokemon \in Members(contender_team)

----------------------------------------------------------------------------
(* The log of an encounter as the trainer fight reads it *)

\* the log ends with Fainted followed by PokemonWinner
EndsWithWinner(l) ==
    /\ Len(l) >= 2
    /\ l[Len(l) - 1].event_name = "Fainted"
    /\ l[Len(l)].event_name = "PokemonWinner"

\* what process_fight returns as an error value for a log it cannot read
LogErrors ==
    { "No fight events returned from pokemon fight",
      "The pre-last fight event was not a fainted event",
      "The last fight event was not a pokemon winner event" }

\* C33: when the log that an encounter returned does not end with Fainted
\* followed by PokemonWinner, a log of fewer than two events included, the
\* trainer fight returns an error value: it does not panic and does not go
\* on with its loop
C33_BadLogIsAnError ==
    [][(tf_pc = "fight" /\ pc = "returned" /\ ~EndsWithWinner(log)) =>
       (tf_pc' = "done" /\ tf_result' \in LogErrors)]_vars

----------------------------------------------------------------------------
(* A trainer fight of an empty team *)

StrategyErrors ==
    { "Contender's strategy produced no valid pokemon",
      "Challenger's strategy produced no valid pokemon" }

\* C34: a trainer fight that was started with an empty team on either side
\* has returned the error 'strategy produced no valid pokemon', whatever the
\* strategies, without a panic and without a Hit event
C34_EmptyTeamIsAnError ==
    (/\ tf_pc # "start"
     /\ (challenger_trainer.team = << >> \/ contender_trainer.team = << >>)) =>
        /\ tf_pc = "done"
        /\ tf_result \in StrategyErrors
        /\ \A i \in 1..Len(tf_log) : tf_log[i].event_name # "Hit"

----------------------------------------------------------------------------
(* Concurrent add_pokemon requests *)

\* no two Pokemon nodes of the store have the same name
UniqueNames ==
    \A n1, n2 \in db_nodes :
        (/\ n1.kind = "Pokemon"
         /\ n2.kind = "Pokemon"
         /\ n1.props.name = n2.props.name) => n1 = n2

\* a request passes the check only for a name no Pokemon node has
RejectsStored ==
    \A c \in Clients :
        (requests[c] = NoEntity /\ requests'[c] # NoEntity) =>
            Named("Pokemon", requests'[c].name) = {}

\* C35: in every interleaving of the checks and puts of add_pokemon requests,
\* and in every series of requests handled one after the other, the store
\* never holds two Pokemon nodes with the same name, and a request for a
\* name that is stored is turned down
C35_UniqueNames == []UniqueNames /\ [][RejectsStored]_vars

----------------------------------------------------------------------------
(* The active pokemon of a trainer fight *)

\* C36: while the trainer fight runs, at most one of the two active slots
\* is empty, and the fight never returns 'Both pokemon are fainted'
C36_OneSlotEmpty ==
    /\ tf_pc \in {"loop", "fight"} =>
           (challenger_pokemon # NoPokemon \/ contender_pokemon # NoPokemon)
    /\ tf_result # "Both pokemon are fainted, which should not be possible"

\* C36: in the loop, after an encounter, the contender's slot is empty, both
\* rosters still hold a pokemon and the challenger's pokemon is active
C36_Witness ==
    /\ tf_pc = "loop"
    /\ encounters >= 1
    /\ TeamsLeft
    /\ contender_pokemon = NoPokemon
    /\ challenger_pokemon # NoPokemon

----------------------------------------------------------------------------
(* The arithmetic of a Hit event *)

\* C37: the hp_left of a Hit is the defender's HP before the hit minus the
\* damage field of the Hit, floored at 0
C37_HitArithmetic ==
    rounds >= 1 =>
        LastHit.hp_left = IF round.def_hp_before >= LastHit.damage
                          THEN round.def_hp_before - LastHit.damage
                          ELSE 0

----------------------------------------------------------------------------
(* Encounters of pokemon without a secondary type *)

\* the nearest f32 to 0.775, in units of 2^-27
F32Weakened == 104018736

NoSecondaryTypes == contender.stype = None /\ challenger.stype = None

----------------------------------------------------------------------------
(* The string sanitize returns *)

\* the number of positions of s that hold a character of the set
CountOf(s, chars) == Cardinality({ i \in 1..Len(s) : s[i] \in chars })

\* every quote of s follows a backslash
QuotesEscaped(s) ==
    \A i \in 1..Len(s) :
        s[i] \in {Quote, DoubleQuote} => (i > 1 /\ s[i - 1] = Backslash)

\* every backslash of s is followed by a quote
BackslashesEscape(s) ==
    \A i \in 1..Len(s) :
        s[i] = Backslash => (i < Len(s) /\ s[i + 1] \in {Quote, DoubleQuote})

\* s without its backslashes, read independently of the model of sanitize
RECURSIVE Unslashed(_)
Unslashed(s) ==
    IF s = << >> THEN << >>
    ELSE IF Head(s) = Backslash THEN Unslashed(Tail(s))
    ELSE <<Head(s)>> \o Unslashed(Tail(s))

\* C39: the string sanitize returns is its argument without backslashes and
\* with exactly one backslash before every quote: no quote without a
\* backslash before it, no backslash without a quote after it, and sanitize
\* of the returned string is the returned string
C39_SanitizeIdempotent ==
    last_call.op = "sanitize" =>
        LET s == last_call.ident
            out == last_call.other
        IN  /\ Unslashed(out) = Unslashed(s)
            /\ CountOf(out, {Backslash}) = CountOf(s, {Quote, DoubleQuote})
            /\ QuotesEscaped(out)
            /\ BackslashesEscape(out)
            /\ sanitize(out) = out

\* C39: sanitize was called with a string that holds a backslash and a quote
\* and that it had returned itself, and returned it again
C39_Witness ==
    /\ last_call.op = "sanitize"
    /\ CountOf(last_call.ident, {Backslash}) >= 1
    /\ CountOf(last_call.ident, {Quote, DoubleQuote}) >= 1
    /\ last_call.other = last_call.ident

====
